---- MODULE Spec2Model ----
(***************************************************************************)
(* A model of the flowchart authoring tool: the Flowchart data model with  *)
(* its validation and self-repair (core/schemas.py), the partial-change    *)
(* merger (core/flow_merger.py), the per-user daily LLM quota of the local *)
(* and the Postgres store (core/persistence), the quota guard              *)
(* (core/ui/rate_limit.py) and the interactive flows of app.py.            *)
(***************************************************************************)
EXTENDS Integers, Sequences, FiniteSets, TLC

VARIABLES
    \* FlowMerger.merge_partial_change: its three arguments and its outcome
    original_flowchart, changed_partial, selected_node_ids, merged,
    \* Flowchart(...): the constructor's arguments and its outcome, then the
    \* outcomes of apply_logic_gap_detection on it and on its own result
    v_nodes, v_edges, flowchart, repaired, repaired_again,
    \* the daily LLM quota: config.DAILY_LLM_REQUEST_LIMIT, the local store's
    \* storage/rate_limits/<user>.json, the user's rows of the Postgres table
    \* llm_daily_usage with the transaction holding their row lock, the
    \* calls of consume_llm_request, and per store whether two of its calls
    \* ever ran at the same time
    daily_limit, rate_file, llm_daily_usage, row_lock, calls, overlapped,
    \* app.py: st.session_state, the files of HistoryManager under
    \* storage/sessions and storage/toon_files, and the calls made by the
    \* last run of the script, in their order
    session_state, storage, script_run,
    \* the TOON codec: a flowchart, the text to_toon_format wrote for it (or a
    \* text that came from elsewhere), and the outcome of TOONParser.parse
    toon_flowchart, toon_text, toon_parsed,
    \* the diagram codec: a flowchart, the text to_mermaid wrote for it (or a
    \* text that came from elsewhere), and the outcome of MermaidParser.parse
    mermaid_flowchart, mermaid_code, mermaid_parsed,
    \* the outcome of FlowExtractor.extract_node_range
    extracted,
    \* HistoryManager's TOON files under storage/toon_files, the last call of
    \* append_toon_log and the outcome of the load_toon_file that followed it
    toon_dir, append_call, toon_loaded,
    \* the session files under storage/sessions, the user's rows of the
    \* Postgres table user_sessions, and the store of the deployment with the
    \* calls of its save_session, load_session and list_sessions, in their order
    storage_dir, user_sessions, session_calls,
    \* the stores of several users: the files under storage/ of the machine
    \* with their modification times, the time, the rows of the Postgres
    \* table user_sessions of all users, and the last call made through a store
    disk, clock, pg_rows, store_call,
    \* the start of a script run: the configuration, the secrets and the
    \* database server of the deployment, the visitor (st.user), and the last
    \* call of resolve_user_key_or_stop or init_history_store
    env, st_user, boot

vars == << original_flowchart, changed_partial, selected_node_ids, merged,
           v_nodes, v_edges, flowchart, repaired, repaired_again,
           daily_limit, rate_file, llm_daily_usage, row_lock, calls, overlapped,
           session_state, storage, script_run,
           toon_flowchart, toon_text, toon_parsed,
           mermaid_flowchart, mermaid_code, mermaid_parsed, extracted,
           toon_dir, append_call, toon_loaded, storage_dir, user_sessions, session_calls,
           disk, clock, pg_rows, store_call, env, st_user, boot >>

(***************************************************************************)
(* Bounds of the model.                                                    *)
(***************************************************************************)
MaxNodes == 3
MaxEdges == 2
MaxSelected == 2
MaxCalls == 4
MaxDailyLimit == 2
MaxHistory == 2
MaxResponses == 1
MaxSessionCalls == 3
MaxStoreCalls == 2

(***************************************************************************)
(* Helpers on sequences (Python lists).                                    *)
(***************************************************************************)
SeqsUpTo(S, n) == UNION { [1..k -> S] : k \in 0..n }

Range(s) == { s[i] : i \in 1..Len(s) }

InList(x, s) == \E i \in 1..Len(s) : s[i] = x

\* [x for x in s if P(x)]
Filter(s, P(_)) == SelectSeq(s, P)

\* the index of the first element of s satisfying P, 0 when there is none
FirstIndex(s, P(_)) ==
    IF \E i \in 1..Len(s) : P(s[i])
    THEN CHOOSE i \in 1..Len(s) : P(s[i]) /\ \A j \in 1..(i - 1) : ~P(s[j])
    ELSE 0

(***************************************************************************)
(* core/schemas.py: Node, Edge, Flowchart.                                 *)
(* Optional[str] is a string or None; Optional[Dict] is the empty set      *)
(* (None) or the singleton of a function (the dict).                       *)
(***************************************************************************)
None == "None"

NodeStatus == {"active", "completed", "missing"}

Node(id, label, type, status, subgraph_id) ==
    [id |-> id, label |-> label, type |-> type, status |-> status,
     subgraph_id |-> subgraph_id]

Edge(source, target, label) ==
    [source |-> source, target |-> target, label |-> label]

NoSubgraphs == {}

\* the outcome of an operation: a value, or the exception it raised
NoError == "none"
NotRun == "not_run"
NoFlow == [nodes |-> << >>, edges |-> << >>, subgraphs |-> NoSubgraphs]
Returned(f) == [raised |-> NoError, value |-> f]
Raised(e) == [raised |-> e, value |-> NoFlow]
Pending == Raised(NotRun)

valid_types == {"start", "end", "process", "decision", "io_data", "storage", "missing"}

NodeIdList(v) == [i \in 1..Len(v) |-> v[i].id]

Count(s, x) == Cardinality({ i \in 1..Len(s) : s[i] = x })

validate_flow_structure_no_duplicate_check(v) ==
    IF Len(v) = 0 THEN "FlowchartValidationError:no_nodes"
    ELSE IF "start" \notin { v[i].type : i \in 1..Len(v) }
            \/ "end" \notin { v[i].type : i \in 1..Len(v) }
    THEN "FlowchartValidationError:start_end_required"
    ELSE IF \E i \in 1..Len(v) : v[i].type \notin valid_types
    THEN "FlowchartValidationError:invalid_type"
    ELSE NoError

\* the field validator of `nodes`: the error it raises, or NoError
validate_flow_structure(v) ==
    IF Len(v) = 0 THEN "FlowchartValidationError:no_nodes"
    ELSE IF "start" \notin { v[i].type : i \in 1..Len(v) }
            \/ "end" \notin { v[i].type : i \in 1..Len(v) }
    THEN "FlowchartValidationError:start_end_required"
    ELSE IF \E i \in 1..Len(v) : Count(NodeIdList(v), v[i].id) > 1
    THEN "FlowchartValidationError:duplicate_ids"
    ELSE IF \E i \in 1..Len(v) : v[i].type \notin valid_types
    THEN "FlowchartValidationError:invalid_type"
    ELSE NoError

\* the model validator: the warnings it emits; it never raises
validate_edges_reference_nodes(nodes, edges) ==
    LET node_ids == { nodes[i].id : i \in 1..Len(nodes) }
    IN  { << "source", edges[i].source >> : i \in { j \in 1..Len(edges) : edges[j].source \notin node_ids } }
        \cup
        { << "target", edges[i].target >> : i \in { j \in 1..Len(edges) : edges[j].target \notin node_ids } }

\* Flowchart(nodes=..., edges=..., subgraphs=...)
\* the messages of FlowchartValidationError
FlowchartValidationErrors ==
    { "FlowchartValidationError:no_nodes", "FlowchartValidationError:start_end_required",
      "FlowchartValidationError:duplicate_ids", "FlowchartValidationError:invalid_type" }

Flowchart(nodes, edges, subgraphs) ==
    LET err == validate_flow_structure(nodes)
    IN  IF err # NoError THEN Raised(err)
        ELSE Returned([nodes |-> nodes, edges |-> edges, subgraphs |-> subgraphs])

(***************************************************************************)
(* core/schemas.py: Flowchart.detect_logic_gaps and                        *)
(* Flowchart.apply_logic_gap_detection.                                    *)
(***************************************************************************)
NodeIds(nodes) == { nodes[i].id : i \in 1..Len(nodes) }

\* len(outgoing_edges[id]) and len(incoming_edges[id])
OutgoingCount(edges, id) == Cardinality({ i \in 1..Len(edges) : edges[i].source = id })
IncomingCount(edges, id) == Cardinality({ i \in 1..Len(edges) : edges[i].target = id })

\* f"missing_{x}"
missing_id(x) == "missing_" \o x

\* the placeholder node of an undefined reference x; its label stands for
\* the source's "未定義: " followed by x
missing_node(x) == Node(missing_id(x), "undefined: " \o x, "missing", "missing", None)

\* 1. decision nodes with at most one outgoing edge
DecisionGaps(f) ==
    SelectSeq(f.nodes, LAMBDA n : n.type = "decision" /\ OutgoingCount(f.edges, n.id) <= 1)

\* 2. the undefined references, target before source for each edge, each
\* missing id once (processed_missing_ids)
RECURSIVE UndefinedReferences(_, _, _)
UndefinedReferences(edges, node_ids, processed) ==
    IF edges = << >> THEN processed
    ELSE LET edge == Head(edges)
             p1 == IF edge.target \notin node_ids /\ ~InList(edge.target, processed)
                   THEN Append(processed, edge.target) ELSE processed
             p2 == IF edge.source \notin node_ids /\ ~InList(edge.source, p1)
                   THEN Append(p1, edge.source) ELSE p1
         IN  UndefinedReferences(Tail(edges), node_ids, p2)

MissingGaps(f) ==
    LET refs == UndefinedReferences(f.edges, NodeIds(f.nodes), << >>)
    IN  [i \in 1..Len(refs) |-> missing_node(refs[i])]

\* 3. nodes other than start/end without any edge
OrphanGaps(f) ==
    SelectSeq(f.nodes, LAMBDA n : /\ n.type \notin {"start", "end"}
                                  /\ OutgoingCount(f.edges, n.id) = 0
                                  /\ IncomingCount(f.edges, n.id) = 0)

detect_logic_gaps(f) == DecisionGaps(f) \o MissingGaps(f) \o OrphanGaps(f)

MarkMissingTypeOnly(node) ==
    Node(node.id, node.label, "missing", node.status, node.subgraph_id)

\* the existing node rewritten as MISSING
MarkMissing(node) ==
    Node(node.id, node.label, "missing", "missing", node.subgraph_id)

\* for gap in gaps: append the gap, or mark the existing node of that id
RECURSIVE ApplyGaps(_, _)
ApplyGaps(new_nodes, gaps) ==
    IF gaps = << >> THEN new_nodes
    ELSE LET gap == Head(gaps)
             i == FirstIndex(new_nodes, LAMBDA n : n.id = gap.id)
             next == IF i = 0 THEN Append(new_nodes, gap)
                     ELSE [new_nodes EXCEPT ![i] = MarkMissing(new_nodes[i])]
         IN  ApplyGaps(next, Tail(gaps))

RewiredEdgeSourceOnly(edge, src, tgt) == Edge(src, edge.target, edge.label)

\* new_edges[i] = Edge(source=src, target=tgt, label=edge.label)
RewiredEdge(edge, src, tgt) == Edge(src, tgt, edge.label)

\* for i, edge in enumerate(new_edges): rewire the undefined endpoints, source
\* first, appending a placeholder node when its id is not yet known
RECURSIVE RewireEdges(_, _, _)
RewireEdges(new_nodes, new_edges, i) ==
    IF i > Len(new_edges) THEN [nodes |-> new_nodes, edges |-> new_edges]
    ELSE LET edge == new_edges[i]
             ids0 == NodeIds(new_nodes)
             src_undefined == edge.source \notin ids0
             nodes1 == IF src_undefined /\ missing_id(edge.source) \notin ids0
                       THEN Append(new_nodes, missing_node(edge.source)) ELSE new_nodes
             src == IF src_undefined THEN missing_id(edge.source) ELSE edge.source
             ids1 == NodeIds(nodes1)
             tgt_undefined == edge.target \notin ids1
             nodes2 == IF tgt_undefined /\ missing_id(edge.target) \notin ids1
                       THEN Append(nodes1, missing_node(edge.target)) ELSE nodes1
             tgt == IF tgt_undefined THEN missing_id(edge.target) ELSE edge.target
             edges2 == IF src_undefined \/ tgt_undefined
                       THEN [new_edges EXCEPT ![i] = RewiredEdge(edge, src, tgt)]
                       ELSE new_edges
         IN  RewireEdges(nodes2, edges2, i + 1)

apply_logic_gap_detection(f) ==
    LET gaps == detect_logic_gaps(f)
        new_nodes == ApplyGaps(f.nodes, gaps)
        rewired == RewireEdges(new_nodes, f.edges, 1)
    IN  IF gaps = << >> THEN Returned(f)
        ELSE Flowchart(rewired.nodes, rewired.edges, f.subgraphs)

(***************************************************************************)
(* core/flow_merger.py: FlowMerger.merge_partial_change.                   *)
(***************************************************************************)
protected_node_ids_end == {"start", "end"}

protected_node_ids == {"start", "node_end"}

\* the node loop without the test `changed_node.id in selected_node_ids`
RECURSIVE UpdateNodesWhetherSelectedOrNot(_, _, _)
UpdateNodesWhetherSelectedOrNot(merged_nodes, changed_nodes, selected) ==
    IF changed_nodes = << >> THEN merged_nodes
    ELSE LET changed_node == Head(changed_nodes)
             i == FirstIndex(merged_nodes, LAMBDA n : n.id = changed_node.id)
             next == IF changed_node.id \in protected_node_ids THEN merged_nodes
                     ELSE IF i # 0
                          THEN [merged_nodes EXCEPT ![i] = changed_node]
                          ELSE merged_nodes
         IN  UpdateNodesWhetherSelectedOrNot(next, Tail(changed_nodes), selected)


\* for changed_node in changed_partial.nodes: replace the selected, unprotected
RECURSIVE UpdateSelectedNodes(_, _, _)
UpdateSelectedNodes(merged_nodes, changed_nodes, selected) ==
    IF changed_nodes = << >> THEN merged_nodes
    ELSE LET changed_node == Head(changed_nodes)
             i == FirstIndex(merged_nodes, LAMBDA n : n.id = changed_node.id)
             next == IF changed_node.id \in protected_node_ids THEN merged_nodes
                     ELSE IF InList(changed_node.id, selected) /\ i # 0
                          THEN [merged_nodes EXCEPT ![i] = changed_node]
                          ELSE merged_nodes
         IN  UpdateSelectedNodes(next, Tail(changed_nodes), selected)

\* append the unprotected changed nodes whose id is not among existing_node_ids
AppendNewNodes(merged_nodes, changed_nodes) ==
    LET existing_node_ids == { merged_nodes[i].id : i \in 1..Len(merged_nodes) }
    IN  merged_nodes \o
        Filter(changed_nodes,
               LAMBDA n : n.id \notin protected_node_ids /\ n.id \notin existing_node_ids)

EdgeSkippedSourceOnly(changed_edge, selected) ==
    changed_edge.source \in protected_node_ids
    /\ ~InList(changed_edge.target, selected)

\* the two `continue` conditions of the edge loop
EdgeSkipped(changed_edge, selected) ==
    \/ changed_edge.source \in protected_node_ids
       /\ ~InList(changed_edge.target, selected)
    \/ changed_edge.target \in protected_node_ids
       /\ ~InList(changed_edge.source, selected)

\* for changed_edge in changed_partial.edges: skip, replace or append
RECURSIVE MergeEdges(_, _, _)
MergeEdges(merged_edges, changed_edges, selected) ==
    IF changed_edges = << >> THEN merged_edges
    ELSE LET changed_edge == Head(changed_edges)
             idx == FirstIndex(merged_edges,
                               LAMBDA e : e.source = changed_edge.source
                                          /\ e.target = changed_edge.target)
             next == IF EdgeSkipped(changed_edge, selected) THEN merged_edges
                     ELSE IF idx # 0
                          THEN [merged_edges EXCEPT ![idx] = changed_edge]
                          ELSE Append(merged_edges, changed_edge)
         IN  MergeEdges(next, Tail(changed_edges), selected)

merge_partial_change(original, changed, selected) ==
    LET merged_nodes == AppendNewNodes(
                            UpdateSelectedNodes(original.nodes, changed.nodes, selected),
                            changed.nodes)
        merged_edges == MergeEdges(original.edges, changed.edges, selected)
    IN  Flowchart(merged_nodes, merged_edges, original.subgraphs)

(***************************************************************************)
(* Inputs of merge_partial_change.  Both flowcharts are constructed        *)
(* Flowchart objects, so their node lists pass validate_flow_structure.    *)
(* Nodes and edges of the original carry the label "old", those of the     *)
(* changed partial flow the label "new".                                   *)
(***************************************************************************)
MergeIds == {"start", "node_end", "a", "b"}

MergeTypes(id) ==
    CASE id = "start" -> {"start"}
      [] id = "node_end" -> {"end"}
      [] id = "a" -> {"start", "process"}
      [] OTHER -> {"end", "process"}

MergeNodePool(label, status, sg) ==
    { n \in [id : MergeIds, label : {label}, type : {"start", "end", "process"},
              status : {status}, subgraph_id : {sg}] : n.type \in MergeTypes(n.id) }

ValidNodeLists(pool) ==
    { v \in SeqsUpTo(pool, MaxNodes) : validate_flow_structure(v) = NoError }

\* the (source, target) keys of the edges tried: anchor to node, node to
\* anchor, anchor to anchor, node to node
MergeEdgeKeys ==
    { << "start", "a" >>, << "a", "node_end" >>, << "start", "node_end" >>, << "a", "a" >> }

MergeEdgePool(label) == { Edge(k[1], k[2], label) : k \in MergeEdgeKeys }

\* selected_node_ids: the code only tests membership, so one order per set of
\* ids is drawn; anchors are included
IdRank(id) ==
    CASE id = "start" -> 1 [] id = "a" -> 2 [] id = "b" -> 3 [] OTHER -> 4

SelectedLists ==
    { s \in SeqsUpTo(MergeIds, MaxSelected) :
        \A i, j \in 1..Len(s) : i < j => IdRank(s[i]) < IdRank(s[j]) }

BaseOriginalNodes ==
    << Node("start", "old", "start", "active", None),
       Node("a", "old", "process", "active", None),
       Node("node_end", "old", "end", "active", None) >>

BaseChangedNodes ==
    << Node("start", "new", "start", "completed", "sg1"),
       Node("a", "new", "process", "completed", "sg1"),
       Node("node_end", "new", "end", "completed", "sg1") >>

MergeIdle ==
    /\ original_flowchart = NoFlow
    /\ changed_partial = NoFlow
    /\ selected_node_ids = << >>
    /\ merged = Pending

FlowIdle ==
    /\ v_nodes = << >>
    /\ v_edges = << >>
    /\ flowchart = Pending
    /\ repaired = Pending
    /\ repaired_again = Pending

QuotaIdle ==
    /\ daily_limit = 0
    /\ rate_file = << >>
    /\ llm_daily_usage = << >>
    /\ row_lock = 0
    /\ calls = << >>
    /\ overlapped = << >>

UIIdle ==
    /\ session_state = << >>
    /\ storage = << >>
    /\ script_run = << >>

\* no flowchart to draw and no diagram text
DiagramIdle ==
    /\ mermaid_flowchart = NoFlow
    /\ mermaid_code = << >>
    /\ mermaid_parsed = Pending

CodecIdle ==
    /\ toon_flowchart = NoFlow
    /\ toon_text = << >>
    /\ toon_parsed = Pending
    /\ DiagramIdle

ExtractIdle == extracted = Pending

\* no call of append_toon_log yet, and no argument for one
NoCall ==
    [session_id |-> "", new_flowchart |-> NoFlow, existing_flow |-> Pending,
     merged_flow |-> NoFlow, result |-> Pending]


\* no TOON file and no call of append_toon_log or load_toon_file
ToonFilesIdle ==
    /\ toon_dir = [files |-> << >>, others |-> 0]
    /\ append_call = NoCall
    /\ toon_loaded = Pending

\* no session file, no row and no call
SessionsIdle ==
    /\ storage_dir = [files |-> << >>, others |-> 0]
    /\ user_sessions = << >>
    /\ session_calls = [store |-> "local", calls |-> << >>]

HistoryIdle == ToonFilesIdle /\ SessionsIdle

\* no call made through a store yet
NoStoreCall == [op |-> "none"]

\* no file, no row and no call of the stores of several users
TenantIdle ==
    /\ disk = << >>
    /\ clock = 0
    /\ pg_rows = << >>
    /\ store_call = NoStoreCall

NoEnv == [deployment |-> "none"]

NoVisitor == [is_logged_in |-> FALSE, email |-> << >>]

NoBoot == [op |-> "none"]

\* no deployment, no visitor and no start of a script run
StartIdle ==
    /\ env = NoEnv
    /\ st_user = NoVisitor
    /\ boot = NoBoot

DeployIdle == TenantIdle /\ StartIdle

LibraryIdle == CodecIdle /\ ExtractIdle /\ HistoryIdle /\ DeployIdle

diagramVars == << mermaid_flowchart, mermaid_code, mermaid_parsed >>
codecVars == << toon_flowchart, toon_text, toon_parsed, diagramVars >>
toonFileVars == << toon_dir, append_call, toon_loaded >>
sessionVars == << storage_dir, user_sessions, session_calls >>
historyVars == << toonFileVars, sessionVars >>
tenantVars == << disk, clock, pg_rows, store_call >>
startVars == << env, st_user, boot >>
deployVars == << tenantVars, startVars >>
libVars == << codecVars, extracted, historyVars, deployVars >>
flowVars == << v_nodes, v_edges, flowchart, repaired, repaired_again >>
mergeVars == << original_flowchart, changed_partial, selected_node_ids, merged >>
quotaVars == << daily_limit, rate_file, llm_daily_usage, row_lock, calls, overlapped >>
uiVars == << session_state, storage, script_run >>

(***************************************************************************)
(* Inputs of the Flowchart constructor and of self-repair.                 *)
(***************************************************************************)
\* any node list, valid or not: repeated ids, missing start/end, a type
\* outside valid_types
ConstructNodePool ==
    [id : {"start", "node_end"}, label : {"n"},
     type : {"start", "end", "process", "bogus"},
     status : {"active"}, subgraph_id : {None}]

ConstructEdgeLists ==
    { << >>, << Edge("start", "ghost", None) >>, << Edge("ghost", "node_end", None) >> }

\* flows to repair: a decision or process node `d`, a node that already has
\* the id `missing_x`, and edges that may name the undefined ids `x` and
\* `missing_x`
RepairTypes(id) ==
    CASE id = "start" -> {"start"}
      [] id = "node_end" -> {"end"}
      [] id = "d" -> {"decision", "process"}
      [] OTHER -> {"start", "process"}

RepairNodePool ==
    { n \in [id : {"start", "node_end", "d", "missing_x"}, label : {"n"},
              type : {"start", "end", "process", "decision"},
              status : {"active"}, subgraph_id : {None}] : n.type \in RepairTypes(n.id) }

RepairEdgePool ==
    { Edge(src, tgt, None) : src \in {"d", "x"},
                             tgt \in {"node_end", "d", "x", "missing_x"} }

InitFlow ==
    /\ \/ /\ v_nodes \in SeqsUpTo(ConstructNodePool, MaxNodes)
          /\ v_edges \in ConstructEdgeLists
       \/ /\ v_nodes \in ValidNodeLists(RepairNodePool)
          /\ v_edges \in SeqsUpTo(RepairEdgePool, MaxEdges)
    /\ flowchart = Pending
    /\ repaired = Pending
    /\ repaired_again = Pending
    /\ MergeIdle
    /\ QuotaIdle
    /\ UIIdle
    /\ LibraryIdle

\* Flowchart(nodes=v_nodes, edges=v_edges)
Construct ==
    /\ flowchart = Pending
    /\ flowchart' = Flowchart(v_nodes, v_edges, NoSubgraphs)
    /\ UNCHANGED << v_nodes, v_edges, repaired, repaired_again >>
    /\ UNCHANGED << mergeVars, quotaVars, uiVars, libVars >>

\* flowchart.apply_logic_gap_detection()
ApplyLogicGapDetection ==
    /\ flowchart.raised = NoError
    /\ repaired = Pending
    /\ repaired' = apply_logic_gap_detection(flowchart.value)
    /\ UNCHANGED << v_nodes, v_edges, flowchart, repaired_again >>
    /\ UNCHANGED << mergeVars, quotaVars, uiVars, libVars >>

\* apply_logic_gap_detection() on the flowchart the first call returned
ApplyLogicGapDetectionAgain ==
    /\ repaired.raised = NoError
    /\ repaired_again = Pending
    /\ repaired_again' = apply_logic_gap_detection(repaired.value)
    /\ UNCHANGED << v_nodes, v_edges, flowchart, repaired >>
    /\ UNCHANGED << mergeVars, quotaVars, uiVars, libVars >>

NextFlow == Construct \/ ApplyLogicGapDetection \/ ApplyLogicGapDetectionAgain

SpecFlow == InitFlow /\ [][NextFlow]_vars

\* either the node lists vary, with one edge each, or the edge lists vary over
\* fixed node lists
InitMerge ==
    /\ \/ /\ original_flowchart \in
                [nodes : ValidNodeLists(MergeNodePool("old", "active", None)),
                 edges : { << Edge("start", "a", "old") >> },
                 subgraphs : { { [sg1 |-> "group"] } }]
          /\ changed_partial \in
                [nodes : ValidNodeLists(MergeNodePool("new", "completed", "sg1")),
                 edges : { << Edge("a", "b", "new") >> },
                 subgraphs : { NoSubgraphs }]
       \/ /\ original_flowchart \in
                [nodes : { BaseOriginalNodes },
                 edges : SeqsUpTo(MergeEdgePool("old"), MaxEdges),
                 subgraphs : { NoSubgraphs }]
          /\ changed_partial \in
                [nodes : { BaseChangedNodes },
                 edges : SeqsUpTo(MergeEdgePool("new"), MaxEdges),
                 subgraphs : { NoSubgraphs }]
    /\ selected_node_ids \in SelectedLists
    /\ merged = Pending
    /\ FlowIdle
    /\ QuotaIdle
    /\ UIIdle
    /\ LibraryIdle

\* FlowMerger.merge_partial_change(original_flowchart, changed_partial, selected_node_ids)
MergePartialChange ==
    /\ merged = Pending
    /\ merged' = merge_partial_change(original_flowchart, changed_partial, selected_node_ids)
    /\ UNCHANGED << original_flowchart, changed_partial, selected_node_ids >>
    /\ UNCHANGED << flowVars, quotaVars, uiVars, libVars >>

NextMerge == MergePartialChange

SpecMerge == InitMerge /\ [][NextMerge]_vars

(***************************************************************************)
(* core/persistence: consume_llm_request of LocalHistoryStore              *)
(* (local_store.py) and of PostgresHistoryStore (postgres_store.py) for    *)
(* one user.  A dict is a function on the set of its keys.  The calls all  *)
(* fall on the day `today`; storage I/O does not fail.                     *)
(***************************************************************************)
RateLimitExceededError == "RateLimitExceededError"

Stores == {"local", "postgres"}

Callers == 1..MaxCalls

\* config.DAILY_LLM_REQUEST_LIMIT is any integer of the environment
DailyLimits == (0 - 1)..MaxDailyLimit

yesterday == "2026-01-01"
today == "2026-01-02"

\* data.get(key, default)
Get(data, key, default) == IF key \in DOMAIN data THEN data[key] ELSE default

\* data[key] = value
Put(data, key, value) ==
    [k \in (DOMAIN data) \cup {key} |-> IF k = key THEN value ELSE data[k]]

NoData == << >>

\* the counters a store may hold from earlier days
EarlierUsage == { NoData } \cup { Put(NoData, yesterday, n) : n \in 1..MaxDailyLimit }

IdleCall ==
    [store |-> "none", pc |-> "idle", data |-> NoData, count |-> 0,
     row |-> {}, outcome |-> Pending]

InFlight(store) ==
    { c \in Callers : calls[c].store = store /\ calls[c].pc \notin {"idle", "done"} }

\* the callers enter in the order of their numbers
MayEnter(c) ==
    /\ calls[c].pc = "idle"
    /\ \A b \in Callers : b < c => calls[b].pc # "idle"

Entered(store) ==
    [overlapped EXCEPT ![store] = @ \/ InFlight(store) # {}]

limit_reached_above(count, limit) == count > limit

\* if count >= daily_limit: raise RateLimitExceededError
limit_reached(count, limit) == count >= limit

\* LocalHistoryStore.consume_llm_request up to the write of the file: the
\* limit test, the read of the file and the test of today's count
LocalRead(c) ==
    /\ MayEnter(c)
    /\ LET data == rate_file
           count == Get(data, today, 0)
       IN  calls' = [calls EXCEPT ![c] =
              IF daily_limit <= 0 \/ limit_reached(count, daily_limit)
              THEN [IdleCall EXCEPT !.store = "local", !.pc = "done",
                                    !.outcome = Raised(RateLimitExceededError)]
              ELSE [IdleCall EXCEPT !.store = "local", !.pc = "write",
                                    !.data = Put(data, today, count + 1),
                                    !.count = count + 1]]
    /\ overlapped' = Entered("local")
    /\ UNCHANGED << daily_limit, rate_file, llm_daily_usage, row_lock >>
    /\ UNCHANGED << mergeVars, flowVars, uiVars, libVars >>

written_merged(file, data) ==
    Put(file, today, Get(file, today, 0) + 1)

\* self._rate_file.write_text(json.dumps(data)): the file becomes the dict
\* this call read, with its own count for today
written(file, data) == data

\* the rest of LocalHistoryStore.consume_llm_request: the write and the return
LocalWrite(c) ==
    /\ calls[c].store = "local"
    /\ calls[c].pc = "write"
    /\ rate_file' = written(rate_file, calls[c].data)
    /\ calls' = [calls EXCEPT ![c].pc = "done",
                              ![c].outcome = Returned(calls[c].count)]
    /\ UNCHANGED << daily_limit, llm_daily_usage, row_lock, overlapped >>
    /\ UNCHANGED << mergeVars, flowVars, uiVars, libVars >>

where_count_up_to(count, limit) == count <= limit

\* WHERE llm_daily_usage.count < %s
where_count_below(count, limit) == count < limit

\* INSERT ... VALUES (user, today, 1) ON CONFLICT (user_key, day) DO UPDATE
\* SET count = count + 1 WHERE count < limit RETURNING count: the row it
\* returns, none when the WHERE clause excludes the update
upsert_returning(table, day, limit) ==
    IF day \notin DOMAIN table THEN {1}
    ELSE IF where_count_below(table[day], limit) THEN {table[day] + 1}
    ELSE {}

\* PostgresHistoryStore.consume_llm_request up to the statement: the limit
\* test and self._connect()
PgConnect(c) ==
    /\ MayEnter(c)
    /\ calls' = [calls EXCEPT ![c] =
          IF daily_limit <= 0
          THEN [IdleCall EXCEPT !.store = "postgres", !.pc = "done",
                                !.outcome = Raised(RateLimitExceededError)]
          ELSE [IdleCall EXCEPT !.store = "postgres", !.pc = "connected"]]
    /\ overlapped' = Entered("postgres")
    /\ UNCHANGED << daily_limit, rate_file, llm_daily_usage, row_lock >>
    /\ UNCHANGED << mergeVars, flowVars, uiVars, libVars >>

\* cur.execute(...); row = cur.fetchone().  The statement waits for the
\* transaction that holds the lock of the user's row (or of its key, when
\* that transaction inserted it) and holds that lock itself until it commits.
PgExecute(c) ==
    /\ calls[c].store = "postgres"
    /\ calls[c].pc = "connected"
    /\ row_lock = 0
    /\ LET row == upsert_returning(llm_daily_usage, today, daily_limit)
       IN  /\ llm_daily_usage' =
                IF row = {} THEN llm_daily_usage
                ELSE Put(llm_daily_usage, today, CHOOSE n \in row : TRUE)
           /\ calls' = [calls EXCEPT ![c].pc = "executed", ![c].row = row]
    /\ row_lock' = c
    /\ UNCHANGED << daily_limit, rate_file, overlapped >>
    /\ UNCHANGED << mergeVars, flowVars, uiVars, libVars >>

\* conn.commit() and the end of PostgresHistoryStore.consume_llm_request
PgCommit(c) ==
    /\ calls[c].store = "postgres"
    /\ calls[c].pc = "executed"
    /\ row_lock' = 0
    /\ calls' = [calls EXCEPT ![c].pc = "done",
                              ![c].outcome =
                                  IF calls[c].row = {}
                                  THEN Raised(RateLimitExceededError)
                                  ELSE Returned(CHOOSE n \in calls[c].row : TRUE)]
    /\ UNCHANGED << daily_limit, rate_file, llm_daily_usage, overlapped >>
    /\ UNCHANGED << mergeVars, flowVars, uiVars, libVars >>

InitQuota ==
    /\ daily_limit \in DailyLimits
    /\ rate_file \in EarlierUsage
    /\ llm_daily_usage \in EarlierUsage
    /\ row_lock = 0
    /\ calls = [c \in Callers |-> IdleCall]
    /\ overlapped = [s \in Stores |-> FALSE]
    /\ MergeIdle
    /\ FlowIdle
    /\ UIIdle
    /\ LibraryIdle

NextQuota ==
    \E c \in Callers :
        LocalRead(c) \/ LocalWrite(c) \/ PgConnect(c) \/ PgExecute(c) \/ PgCommit(c)

SpecQuota == InitQuota /\ [][NextQuota]_vars

(***************************************************************************)
(* core/flow_extractor.py, core/toon_parser.py, core/llm_client.py and     *)
(* core/history_mgr.py as app.py uses them.  The text an LLM call returns  *)
(* is represented by what the program reads from it: whether               *)
(* is_question_response matches it, and the [Node] and [Edge] blocks       *)
(* TOONParser.parse finds in it.  A TOON file is represented by the        *)
(* flowchart its text encodes; storage I/O does not fail, and there are    *)
(* fewer files than config.MAX_SESSION_JSON_FILES.                         *)
(***************************************************************************)
MAX_QUESTION_COUNT == 5

\* FlowExtractor.extract_node_range(flowchart, node_ids), fc the flowchart
extract_node_range(fc, node_ids) ==
    LET valid_node_ids == Filter(node_ids, LAMBDA nid : nid \notin {"start", "node_end"})
        selected_nodes == Filter(fc.nodes, LAMBDA n : InList(n.id, valid_node_ids))
        included_ids == NodeIds(selected_nodes)
                          \cup (NodeIds(fc.nodes) \cap {"start", "node_end"})
        extracted_nodes == Filter(fc.nodes, LAMBDA n : n.id \in included_ids)
        extracted_edges == Filter(fc.edges,
                               LAMBDA e : e.source \in included_ids /\ e.target \in included_ids)
    IN  IF selected_nodes = << >> THEN Raised("ValueError")
        ELSE Flowchart(extracted_nodes, extracted_edges, NoSubgraphs)

Text(question, nodes, edges) == [question |-> question, nodes |-> nodes, edges |-> edges]

\* LLMClient.is_question_response(response_text)
is_question_response(response_text) == response_text.question

\* TOONParser.parse(text)
TOONParser_parse(text) ==
    IF text.nodes = << >> THEN Raised("TOONParseError")
    ELSE Flowchart(text.nodes, text.edges, NoSubgraphs)

\* the class of a raised exception
ExceptionClass(e) == IF e \in FlowchartValidationErrors THEN "FlowchartValidationError" ELSE e

\* config.SESSION_ID_PATTERN.match(session_id), among the names entered
SESSION_ID_PATTERN == {"default_session", "s2"}

sanitize_session_id_unless_dots(session_id) ==
    IF session_id = "../x" THEN "ValueError" ELSE NoError

\* HistoryManager._sanitize_session_id(session_id): the exception it raises
sanitize_session_id(session_id) ==
    IF session_id = "" \/ session_id \notin SESSION_ID_PATTERN THEN "ValueError" ELSE NoError

append_merged_nodes_all_appended(existing_nodes, new_nodes) == existing_nodes \o new_nodes


\* the merge of append_toon_log: nodes and edges of the existing flow in
\* their order, each replaced by the first new one with its id or key, then
\* the new ones not met before
append_merged_nodes(existing_nodes, new_nodes) ==
    LET kept == [i \in 1..Len(existing_nodes) |->
                   LET k == FirstIndex(new_nodes, LAMBDA n : n.id = existing_nodes[i].id)
                   IN  IF k # 0 THEN new_nodes[k] ELSE existing_nodes[i]]
        processed_ids == NodeIds(existing_nodes)
    IN  kept \o Filter(new_nodes, LAMBDA n : n.id \notin processed_ids)

append_merged_edges_existing_kept(existing_edges, new_edges) ==
    existing_edges
    \o Filter(new_edges, LAMBDA e : \A i \in 1..Len(existing_edges) :
                 << e.source, e.target >> # << existing_edges[i].source, existing_edges[i].target >>)

append_merged_edges(existing_edges, new_edges) ==
    LET kept == [i \in 1..Len(existing_edges) |->
                   LET k == FirstIndex(new_edges,
                               LAMBDA e : e.source = existing_edges[i].source
                                          /\ e.target = existing_edges[i].target)
                   IN  IF k # 0 THEN new_edges[k] ELSE existing_edges[i]]
        processed_edge_keys == { << existing_edges[i].source, existing_edges[i].target >> :
                                    i \in 1..Len(existing_edges) }
    IN  kept \o Filter(new_edges, LAMBDA e : << e.source, e.target >> \notin processed_edge_keys)

\* a dict of subgraphs, empty for None
SubgraphDict(subgraphs) == IF subgraphs = {} THEN << >> ELSE CHOOSE sg \in subgraphs : TRUE

\* merged_subgraphs of append_toon_log
append_merged_subgraphs(existing, new) ==
    IF SubgraphDict(existing) = << >> /\ SubgraphDict(new) = << >> THEN {}
    ELSE { [k \in (DOMAIN SubgraphDict(existing)) \cup (DOMAIN SubgraphDict(new)) |->
              IF k \in DOMAIN SubgraphDict(new) THEN SubgraphDict(new)[k]
              ELSE SubgraphDict(existing)[k]] }

\* HistoryManager.append_toon_log(session_id, new_flowchart): the flowchart
\* it returns and writes to the session's TOON file, or the exception
append_toon_log(toon_files, session_id, new_flowchart) ==
    IF sanitize_session_id(session_id) # NoError THEN Raised(sanitize_session_id(session_id))
    ELSE IF session_id \notin DOMAIN toon_files THEN Returned(new_flowchart)
    ELSE LET existing_flow == toon_files[session_id]
             merged_flow == Flowchart(
                 append_merged_nodes(existing_flow.nodes, new_flowchart.nodes),
                 append_merged_edges(existing_flow.edges, new_flowchart.edges),
                 append_merged_subgraphs(existing_flow.subgraphs, new_flowchart.subgraphs))
         IN  IF merged_flow.raised # NoError THEN merged_flow
             ELSE apply_logic_gap_detection(merged_flow.value)

(***************************************************************************)
(* app.py: one action per button or input of the page.  Each action is the *)
(* run of the script that the input triggers.                              *)
(***************************************************************************)
\* the initial flow of a new browser session (the labels stand for the
\* Japanese ones)
initial_flow ==
    [nodes |-> << Node("start", "Start", "start", "active", None),
                  Node("node_end", "End", "end", "active", None) >>,
     edges |-> << Edge("start", "node_end", None) >>,
     subgraphs |-> NoSubgraphs]

\* st.session_state after the initialisation at the top of the script; an
\* Optional[str] is the empty set (None) or the singleton of the text
InitialSessionState ==
    [history |-> << initial_flow >>,
     conversation_context |-> {},
     pending_questions |-> {},
     question_responses |-> << >>,
     append_mode_for_question |-> FALSE,
     question_count |-> 0,
     selected_node_ids |-> << >>]

\* the session names typed into the sidebar
SessionNames == {"default_session", "../x"}

\* what an LLM call returns or raises
LLMTexts ==
    { [text |-> "q?", question |-> TRUE, nodes |-> << >>, edges |-> << >>],
      [text |-> "hello", question |-> FALSE, nodes |-> << >>, edges |-> << >>],
      [text |-> "[Node] a", question |-> FALSE,
       nodes |-> << Node("a", "A", "process", "active", None) >>, edges |-> << >>],
      [text |-> "[Node] start a node_end", question |-> FALSE,
       nodes |-> << Node("start", "Start", "start", "active", None),
                    Node("a", "A", "process", "active", None),
                    Node("node_end", "End", "end", "active", None) >>,
       edges |-> << Edge("start", "a", None), Edge("a", "node_end", None) >>] }

\* a valid flow whose repair retypes its only start node
UnrepairableText ==
    [text |-> "[Node] missing_x node_end", question |-> FALSE,
     nodes |-> << Node("missing_x", "X", "start", "active", None),
                  Node("node_end", "End", "end", "active", None) >>,
     edges |-> << Edge("missing_x", "node_end", None), Edge("node_end", "x", None) >>]

LLMOutcomes ==
    { Raised("LLMAPIError"), Raised("ValueError") } \cup { Returned(t) : t \in LLMTexts }

\* what generate_flow returns or raises
GenerateFlowOutcomes == LLMOutcomes \cup { Returned(UnrepairableText) }

\* one call made by a run of the script, with the class of what it raised
Call(name, outcome) == [call |-> name, raised |-> ExceptionClass(outcome.raised)]

Ok == Returned(NoFlow)

\* the calls up to and including the first that raised
UpToFailure(steps) ==
    LET failed == FirstIndex(steps, LAMBDA ev : ev.raised # NoError)
    IN  IF failed = 0 THEN steps ELSE SubSeq(steps, 1, failed)

Completed(steps) == FirstIndex(steps, LAMBDA ev : ev.raised # NoError) = 0

\* the methods of class HistoryManager
HistoryManagerMethods ==
    { "_sanitize_session_id", "_validate_file_path", "save_session", "load_session",
      "save_toon_file", "load_toon_file", "list_toon_files", "list_sessions",
      "cleanup_session_files", "cleanup_toon_files", "append_toon_log" }

\* HistoryManager.load_session(session_id)
load_session(sessions, session_id) ==
    IF sanitize_session_id(session_id) # NoError THEN Raised(sanitize_session_id(session_id))
    ELSE IF session_id \notin DOMAIN sessions THEN Returned(<< >>)
    ELSE Returned(sessions[session_id])

\* the call as it would be if HistoryManager had the method, as an alias of
\* load_session
load_history_as_load_session(sessions, session_name) == load_session(sessions, session_name)


\* history_mgr.load_history(session_name): the attribute lookup, then the call
load_history(sessions, session_name) ==
    IF "load_history" \notin HistoryManagerMethods THEN Raised("AttributeError")
    ELSE load_session(sessions, session_name)

\* a new browser session over empty storage
InitPage ==
    /\ session_state = InitialSessionState
    /\ storage = [sessions |-> << >>, toon_files |-> << >>]
    /\ script_run = [handler |-> "first_run", calls |-> << >>]
    /\ rate_file = NoData
    /\ llm_daily_usage = << >>
    /\ row_lock = 0
    /\ calls = << >>
    /\ overlapped = << >>
    /\ MergeIdle
    /\ FlowIdle
    /\ LibraryIdle

uiQuotaIdle == << llm_daily_usage, row_lock, calls, overlapped >>

\* the button "apply the change to the selected range" (app.py:710-784)
PartialEdit ==
    /\ session_state.selected_node_ids # << >>
    /\ \E history_index \in 1..Len(session_state.history),
          change_instruction \in {"", "relabel"},
          session_name \in SessionNames,
          changed_toon \in LLMOutcomes :
        LET current_flow == session_state.history[history_index]
            selected == session_state.selected_node_ids
            partial_flowchart == extract_node_range(current_flow, selected)
            parsed == TOONParser_parse(changed_toon.value)
            merged_flowchart == merge_partial_change(current_flow, parsed.value, selected)
            appended == append_toon_log(storage.toon_files, session_name,
                                        merged_flowchart.value)
            reloaded == load_history(storage.sessions, session_name)
            steps == << Call("extract_node_range", partial_flowchart),
                        Call("generate_partial_change", changed_toon),
                        Call("TOONParser.parse", parsed),
                        Call("merge_partial_change", merged_flowchart),
                        Call("append_toon_log", appended),
                        Call("load_history", reloaded) >>
        IN  IF change_instruction = ""
            THEN /\ script_run' = [handler |-> "partial_edit", calls |-> << >>]
                 /\ UNCHANGED << session_state, storage >>
            ELSE /\ script_run' = [handler |-> "partial_edit",
                                   calls |-> UpToFailure(steps) \o
                                       IF Completed(steps) THEN << Call("st.rerun", Ok) >>
                                       ELSE << >>]
                 /\ storage' =
                      IF Completed(SubSeq(steps, 1, 5))
                      THEN [storage EXCEPT !.toon_files = Put(@, session_name, appended.value)]
                      ELSE storage
                 /\ session_state' =
                      IF Completed(steps)
                      THEN [session_state EXCEPT !.history = reloaded.value,
                                                 !.selected_node_ids = << >>]
                      ELSE session_state
    /\ UNCHANGED << daily_limit, rate_file, uiQuotaIdle >>
    /\ UNCHANGED << mergeVars, flowVars, libVars >>

\* del data[key]
Remove(data, key) == [k \in (DOMAIN data) \ {key} |-> data[k]]

\* the "save" button of the sidebar (app.py:59-65)
SaveSession ==
    /\ \E session_name \in SessionNames :
        IF sanitize_session_id(session_name) # NoError
        THEN /\ script_run' = [handler |-> "save",
                               calls |-> << Call("save_session", Raised("ValueError")) >>]
             /\ UNCHANGED storage
        ELSE /\ storage' =
                  [sessions |-> Put(storage.sessions, session_name, session_state.history),
                   toon_files |->
                       IF session_state.history # << >>
                       THEN Put(storage.toon_files, session_name,
                                session_state.history[Len(session_state.history)])
                       ELSE storage.toon_files]
             /\ script_run' = [handler |-> "save",
                               calls |-> << Call("save_session", Ok) >>
                                   \o (IF session_state.history # << >>
                                       THEN << Call("save_toon_file", Ok) >> ELSE << >>)
                                   \o << Call("st.rerun", Ok) >>]
    /\ UNCHANGED << session_state, daily_limit, rate_file, uiQuotaIdle >>
    /\ UNCHANGED << mergeVars, flowVars, libVars >>

\* the "delete" button of the sidebar (app.py:68-82)
DeleteSession ==
    /\ \E session_name \in SessionNames :
        IF session_name \in DOMAIN storage.sessions
        THEN /\ storage' = [sessions |-> Remove(storage.sessions, session_name),
                            toon_files |-> Remove(storage.toon_files, session_name)]
             /\ script_run' = [handler |-> "delete", calls |-> << Call("st.rerun", Ok) >>]
        ELSE /\ script_run' = [handler |-> "delete", calls |-> << >>]
             /\ UNCHANGED storage
    /\ UNCHANGED << session_state, daily_limit, rate_file, uiQuotaIdle >>
    /\ UNCHANGED << mergeVars, flowVars, libVars >>

\* the "load the selected session" button (app.py:92-104)
LoadSession ==
    /\ \E selected_session \in DOMAIN storage.sessions :
        LET loaded_history == load_session(storage.sessions, selected_session)
        IN  IF loaded_history.raised = NoError /\ loaded_history.value # << >>
            THEN /\ session_state' = [session_state EXCEPT !.history = loaded_history.value]
                 /\ script_run' = [handler |-> "load",
                                   calls |-> << Call("load_session", loaded_history),
                                                Call("st.rerun", Ok) >>]
            ELSE /\ script_run' = [handler |-> "load",
                                   calls |-> << Call("load_session", loaded_history) >>]
                 /\ UNCHANGED session_state
    /\ UNCHANGED << storage, daily_limit, rate_file, uiQuotaIdle >>
    /\ UNCHANGED << mergeVars, flowVars, libVars >>

\* the "load the TOON file" button (app.py:113-123)
LoadToonFile ==
    /\ \E selected_toon \in DOMAIN storage.toon_files :
        /\ session_state' = [session_state EXCEPT !.history = << storage.toon_files[selected_toon] >>]
        /\ script_run' = [handler |-> "load_toon",
                          calls |-> << Call("load_toon_file", Ok), Call("st.rerun", Ok) >>]
    /\ UNCHANGED << storage, daily_limit, rate_file, uiQuotaIdle >>
    /\ UNCHANGED << mergeVars, flowVars, libVars >>

\* the node ids a user may type or click
TypedNodeIds == {"start", "a", "zz"}

\* the loop without the test `node_id not in selected`
AppendEvery(selected, ids) == selected \o ids


\* for node_id in ids: if node_id not in selected: selected.append(node_id)
RECURSIVE AppendUnique(_, _)
AppendUnique(selected, ids) ==
    IF ids = << >> THEN selected
    ELSE AppendUnique(IF InList(Head(ids), selected) THEN selected
                      ELSE Append(selected, Head(ids)),
                      Tail(ids))

\* the text input of node ids (app.py:609-636)
SelectByText ==
    /\ \E history_index \in 1..Len(session_state.history),
          node_ids_input \in SeqsUpTo(TypedNodeIds, MaxSelected) \ { << >> } :
        LET current_flow == session_state.history[history_index]
            selected_ids == Filter(node_ids_input, LAMBDA id : id \notin {"start", "node_end"})
            valid_ids == Filter(selected_ids, LAMBDA id : id \in NodeIds(current_flow.nodes))
        IN  session_state' = [session_state EXCEPT !.selected_node_ids =
                                  AppendUnique(@, valid_ids)]
    /\ script_run' = [handler |-> "select_text", calls |-> << >>]
    /\ UNCHANGED << storage, daily_limit, rate_file, uiQuotaIdle >>
    /\ UNCHANGED << mergeVars, flowVars, libVars >>

\* the query parameter selected_node (app.py:641-653)
SelectByQuery ==
    /\ \E history_index \in 1..Len(session_state.history),
          selected_node_id \in TypedNodeIds :
        LET current_flow == session_state.history[history_index]
        IN  session_state' = [session_state EXCEPT !.selected_node_ids =
                IF /\ selected_node_id \notin {"start", "node_end"}
                   /\ selected_node_id \in NodeIds(current_flow.nodes)
                THEN AppendUnique(@, << selected_node_id >>)
                ELSE @]
    /\ script_run' = [handler |-> "select_query", calls |-> << Call("st.rerun", Ok) >>]
    /\ UNCHANGED << storage, daily_limit, rate_file, uiQuotaIdle >>
    /\ UNCHANGED << mergeVars, flowVars, libVars >>

\* list(s) of a set s: its elements in an order the program does not choose
ListsOf(s) ==
    { l \in [1..Cardinality(s) -> s] : \A i, j \in 1..Cardinality(s) : i # j => l[i] # l[j] }

\* the multiselect over the nodes of the current flow (app.py:656-682)
SelectFromList ==
    /\ \E history_index \in 1..Len(session_state.history) :
        LET current_flow == session_state.history[history_index]
            available_nodes == Filter(current_flow.nodes,
                                      LAMBDA n : n.id \notin {"start", "node_end"})
        IN  /\ available_nodes # << >>
            /\ \E new_selected \in SUBSET NodeIds(available_nodes) :
               \E merged_list \in ListsOf(Range(session_state.selected_node_ids)
                                            \cup new_selected) :
                   session_state' = [session_state EXCEPT !.selected_node_ids = merged_list]
    /\ script_run' = [handler |-> "select_list", calls |-> << >>]
    /\ UNCHANGED << storage, daily_limit, rate_file, uiQuotaIdle >>
    /\ UNCHANGED << mergeVars, flowVars, libVars >>

\* the button "clear the selection" (app.py:692-694)
ClearSelection ==
    /\ session_state.selected_node_ids # << >>
    /\ session_state' = [session_state EXCEPT !.selected_node_ids = << >>]
    /\ script_run' = [handler |-> "clear_selection", calls |-> << Call("st.rerun", Ok) >>]
    /\ UNCHANGED << storage, daily_limit, rate_file, uiQuotaIdle >>
    /\ UNCHANGED << mergeVars, flowVars, libVars >>

\* the button "remove the last selection" (app.py:695-699)
RemoveLastSelection ==
    /\ session_state.selected_node_ids # << >>
    /\ session_state' = [session_state EXCEPT !.selected_node_ids =
                            SubSeq(@, 1, Len(@) - 1)]
    /\ script_run' = [handler |-> "remove_last_selection",
                      calls |-> << Call("st.rerun", Ok) >>]
    /\ UNCHANGED << storage, daily_limit, rate_file, uiQuotaIdle >>
    /\ UNCHANGED << mergeVars, flowVars, libVars >>

\* core/ui/rate_limit.py: consume_llm_quota_or_stop(st, history_store,
\* daily_limit) on the local store; store_fails is any failure of the store
\* other than the exhausted quota
ConsumeLlmQuotaOrStop ==
    /\ \E store_fails \in BOOLEAN :
        LET count == Get(rate_file, today, 0)
            consumed ==
                IF store_fails THEN Raised("Exception")
                ELSE IF daily_limit <= 0 \/ limit_reached(count, daily_limit)
                THEN Raised(RateLimitExceededError)
                ELSE Returned(NoFlow)
        IN  /\ rate_file' = IF consumed.raised = NoError
                            THEN written(rate_file, Put(rate_file, today, count + 1))
                            ELSE rate_file
            /\ script_run' = [handler |-> "consume_llm_quota_or_stop",
                              calls |-> << Call("consume_llm_request", consumed) >>
                                  \o IF consumed.raised = NoError THEN << >>
                                     ELSE << Call("st.error", Ok), Call("st.stop", Ok) >>]
    /\ UNCHANGED << session_state, storage, daily_limit, uiQuotaIdle >>
    /\ UNCHANGED << mergeVars, flowVars, libVars >>

question_cap_reached_above(question_count) == question_count > MAX_QUESTION_COUNT

\* if st.session_state.question_count >= MAX_QUESTION_COUNT
question_cap_reached(question_count) == question_count >= MAX_QUESTION_COUNT

\* the question branch of the generation flows: question_count += 1, then
\* either the reset at MAX_QUESTION_COUNT or the new pending question
QuestionAsked(ss, context, raw_toon_text) ==
    IF question_cap_reached(ss.question_count + 1)
    THEN [ss EXCEPT !.conversation_context = {},
                    !.pending_questions = {},
                    !.question_responses = << >>,
                    !.question_count = 0]
    ELSE [ss EXCEPT !.conversation_context = {context},
                    !.pending_questions = {raw_toon_text.text},
                    !.question_responses = << >>,
                    !.question_count = @ + 1]

\* the class of the first exception among the calls, NoError when none raised
FirstRaised(steps) ==
    LET failed == FirstIndex(steps, LAMBDA ev : ev.raised # NoError)
    IN  IF failed = 0 THEN NoError ELSE steps[failed].raised

\* the button "generate the flow" (app.py:381-533).  In the handlers of the
\* exceptions is_question_response is false, as it was in the try block.
GenerateFlow ==
    /\ Len(session_state.history) < MaxHistory
    /\ \E history_index \in 1..Len(session_state.history),
          user_prompt \in {"", "p"},
          append_mode \in BOOLEAN,
          session_name \in SessionNames,
          raw \in GenerateFlowOutcomes :
        LET raw_toon_text == raw.value
            parsed == TOONParser_parse(raw_toon_text)
            new_flow == apply_logic_gap_detection(parsed.value)
            merged_flow == append_toon_log(storage.toon_files, session_name, new_flow.value)
            steps == << Call("generate_flow", raw),
                        Call("TOONParser.parse", parsed),
                        Call("apply_logic_gap_detection", new_flow) >>
                     \o (IF append_mode THEN << Call("append_toon_log", merged_flow) >>
                         ELSE << >>)
            \* new_flow as the handler of FlowchartValidationError finds it
            new_flow_at_failure == IF new_flow.raised # NoError THEN parsed.value
                                   ELSE new_flow.value
            corrected_flow == apply_logic_gap_detection(new_flow_at_failure)
        IN  IF user_prompt = ""
            THEN /\ script_run' = [handler |-> "generate", calls |-> << >>]
                 /\ UNCHANGED << session_state, storage >>
            ELSE IF raw.raised # NoError
            THEN /\ script_run' = [handler |-> "generate",
                                   calls |-> << Call("generate_flow", raw) >>]
                 /\ UNCHANGED << session_state, storage >>
            ELSE IF is_question_response(raw_toon_text)
            THEN /\ session_state' =
                      LET asked == QuestionAsked(session_state, user_prompt, raw_toon_text)
                      IN  IF asked.pending_questions = {} THEN asked
                          ELSE [asked EXCEPT !.append_mode_for_question = append_mode]
                 /\ script_run' = [handler |-> "generate",
                                   calls |-> << Call("generate_flow", raw) >>
                                       \o IF session_state'.pending_questions # {}
                                          THEN << Call("st.rerun", Ok) >> ELSE << >>]
                 /\ UNCHANGED storage
            ELSE IF Completed(steps)
            THEN /\ session_state' =
                      [session_state EXCEPT
                          !.history = Append(@, IF append_mode THEN merged_flow.value
                                                ELSE new_flow.value),
                          !.question_count = 0]
                 /\ storage' =
                      IF append_mode
                      THEN [storage EXCEPT !.toon_files = Put(@, session_name, merged_flow.value)]
                      ELSE storage
                 /\ script_run' = [handler |-> "generate",
                                   calls |-> steps \o << Call("st.rerun", Ok) >>]
            ELSE IF /\ FirstRaised(steps) = "FlowchartValidationError"
                    /\ parsed.raised = NoError
                    /\ corrected_flow.raised = NoError
            THEN /\ session_state' =
                      [session_state EXCEPT !.history = Append(@, corrected_flow.value),
                                            !.question_count = 0]
                 /\ script_run' = [handler |-> "generate",
                                   calls |-> UpToFailure(steps)
                                       \o << Call("apply_logic_gap_detection", corrected_flow),
                                             Call("st.rerun", Ok) >>]
                 /\ UNCHANGED storage
            ELSE /\ script_run' = [handler |-> "generate", calls |-> UpToFailure(steps)]
                 /\ UNCHANGED << session_state, storage >>
    /\ UNCHANGED << daily_limit, rate_file, uiQuotaIdle >>
    /\ UNCHANGED << mergeVars, flowVars, libVars >>

\* "1. a\n2. b\n" of the answers
RECURSIVE NumberedResponses(_, _)
NumberedResponses(responses, i) ==
    IF i > Len(responses) THEN ""
    ELSE ToString(i) \o ". " \o responses[i] \o "\n" \o NumberedResponses(responses, i + 1)

\* combined_prompt of the answer flow (the headings stand for the Japanese ones)
CombinedPrompt(context, pending_questions, responses) ==
    context
    \o (IF pending_questions # {}
        THEN "\n\nQ:\n" \o (CHOOSE q \in pending_questions : TRUE) \o "\n" ELSE "")
    \o (IF responses # << >> THEN "\n\nA:\n" \o NumberedResponses(responses, 1) ELSE "")

\* the button "send the answer" (app.py:197-348)
AnswerSubmit ==
    /\ session_state.pending_questions # {}
    /\ session_state.conversation_context # {}
    /\ Len(session_state.history) < MaxHistory
    /\ Len(session_state.question_responses) < MaxResponses
    /\ \E history_index \in 1..Len(session_state.history),
          user_answer \in {"", "a"},
          session_name \in SessionNames,
          raw \in GenerateFlowOutcomes :
        LET \* the answer is appended before the try block, and the snapshot
            \* temp_responses is taken after it
            answered == [session_state EXCEPT !.question_responses = Append(@, user_answer)]
            combined_prompt ==
                CombinedPrompt(CHOOSE c \in session_state.conversation_context : TRUE,
                               session_state.pending_questions,
                               answered.question_responses)
            append_mode_flag == session_state.append_mode_for_question
            raw_toon_text == raw.value
            parsed == TOONParser_parse(raw_toon_text)
            new_flow == apply_logic_gap_detection(parsed.value)
            merged_flow == append_toon_log(storage.toon_files, session_name, new_flow.value)
            steps == << Call("generate_flow", raw),
                        Call("TOONParser.parse", parsed),
                        Call("apply_logic_gap_detection", new_flow) >>
                     \o (IF append_mode_flag THEN << Call("append_toon_log", merged_flow) >>
                         ELSE << >>)
        IN  IF user_answer = ""
            THEN /\ script_run' = [handler |-> "answer", calls |-> << >>]
                 /\ UNCHANGED << session_state, storage >>
            ELSE IF raw.raised # NoError
            THEN /\ session_state' = answered
                 /\ script_run' = [handler |-> "answer",
                                   calls |-> << Call("generate_flow", raw) >>]
                 /\ UNCHANGED storage
            ELSE IF is_question_response(raw_toon_text)
            THEN /\ session_state' = QuestionAsked(answered, combined_prompt, raw_toon_text)
                 /\ script_run' = [handler |-> "answer",
                                   calls |-> << Call("generate_flow", raw),
                                                Call("st.rerun", Ok) >>]
                 /\ UNCHANGED storage
            ELSE IF Completed(steps)
            THEN /\ session_state' =
                      [session_state EXCEPT
                          !.conversation_context = {},
                          !.pending_questions = {},
                          !.question_responses = << >>,
                          !.question_count = 0,
                          !.history = Append(@, IF append_mode_flag THEN merged_flow.value
                                                ELSE new_flow.value)]
                 /\ storage' =
                      IF append_mode_flag
                      THEN [storage EXCEPT !.toon_files = Put(@, session_name, merged_flow.value)]
                      ELSE storage
                 /\ script_run' = [handler |-> "answer",
                                   calls |-> steps \o << Call("st.rerun", Ok) >>]
            ELSE \* the handlers restore the snapshot; question_count was
                 \* reset before the parse and stays 0
                 /\ session_state' = [answered EXCEPT !.question_count = 0]
                 /\ script_run' = [handler |-> "answer", calls |-> UpToFailure(steps)]
                 /\ UNCHANGED storage
    /\ UNCHANGED << daily_limit, rate_file, uiQuotaIdle >>
    /\ UNCHANGED << mergeVars, flowVars, libVars >>

\* the button "cancel" of a pending question (app.py:351-357)
CancelQuestion ==
    /\ session_state.pending_questions # {}
    /\ session_state' = [session_state EXCEPT !.conversation_context = {},
                                              !.pending_questions = {},
                                              !.question_responses = << >>,
                                              !.question_count = 0]
    /\ script_run' = [handler |-> "cancel", calls |-> << Call("st.rerun", Ok) >>]
    /\ UNCHANGED << storage, daily_limit, rate_file, uiQuotaIdle >>
    /\ UNCHANGED << mergeVars, flowVars, libVars >>

\* the flows that edit, select, save and load
NextUI ==
    \/ GenerateFlow \/ PartialEdit
    \/ SelectByText \/ SelectByQuery \/ SelectFromList
    \/ ClearSelection \/ RemoveLastSelection
    \/ SaveSession \/ DeleteSession \/ LoadSession \/ LoadToonFile

InitUI == InitPage /\ daily_limit = 1

SpecUI == InitUI /\ [][NextUI]_vars

\* the flows of generation and clarification, and the quota guard
NextClarify == GenerateFlow \/ AnswerSubmit \/ CancelQuestion \/ ConsumeLlmQuotaOrStop

InitClarify == InitPage /\ daily_limit \in {0, 1}

SpecClarify == InitClarify /\ [][NextClarify]_vars

(***************************************************************************)
(* TOON text.  A text is a sequence of atoms: an atom is a word (letters,  *)
(* digits, underscores) or one of the characters and marks that the codec  *)
(* looks at: "[", "]", ":", the space, the newline and the code fence.     *)
(* A str of the program is the concatenation of the atoms of its text.     *)
(***************************************************************************)
Whitespace == {" ", "\n"}

\* the mark of a code fence, three backquotes (written with quotes here)
Fence == "'''"

\* the words made of letters only, which the pattern [a-zA-Z]* consumes whole
LetterWords ==
    {"toon", "a", "b", "g", "G", "A", "x", "end", "End", "END", "start", "Start", "process"}

\* word.lower()
Lower(atom) ==
    CASE atom \in {"End", "END"} -> "end"
      [] atom = "Node" -> "node"
      [] atom = "Edge" -> "edge"
      [] atom = "Subgraph" -> "subgraph"
      [] atom = "Start" -> "start"
      [] atom = "A" -> "a"
      [] atom = "G" -> "g"
      [] OTHER -> atom

\* text.lower()
LowerAll(text) == [i \in 1..Len(text) |-> Lower(text[i])]

\* the str of a text
RECURSIVE Str(_)
Str(text) == IF text = << >> THEN "" ELSE text[1] \o Str(Tail(text))

\* text.strip()
RECURSIVE lstrip(_)
lstrip(text) ==
    IF text # << >> /\ text[1] \in Whitespace THEN lstrip(Tail(text)) ELSE text

RECURSIVE rstrip(_)
rstrip(text) ==
    IF text # << >> /\ text[Len(text)] \in Whitespace
    THEN rstrip(SubSeq(text, 1, Len(text) - 1)) ELSE text

strip(text) == rstrip(lstrip(text))

\* the texts of the ids, labels and other strings of the flows of this model
PlainTexts ==
    { << >>, << "a" >>, << "b" >>, << "A" >>, << "g" >>, << "G" >>,
      << "start" >>, << "Start" >>, << "node_end" >>, << "end" >>, << "End" >>, << "END" >>,
      << "x" >>, << "process" >>, << "decision" >>, << "missing" >>,
      << "active" >>, << "completed" >>, << "None" >>,
      << "a", ":", "b" >>, << "a", " ", "b" >> }

\* texts that are untrimmed, span lines, open a bracket or hold a fence
AwkwardTexts ==
    { << " ", "a" >>, << "a", " " >>, << " ", "G" >>, << "a", "\n", "b" >>,
      << "a", "[", "b" >>, << "a", "\n", "id", ":", "b" >>, << Fence, "a" >>, << "a", Fence >> }

ValueTexts == PlainTexts \cup AwkwardTexts

\* the texts of the strings that self-repair derives: f"missing_{x}" and the
\* label of the placeholder; and the next line of the block, which the
\* parser reads as the value of a field whose own value it skipped
KnownTexts ==
    ValueTexts
    \cup { << "missing_" >> \o t : t \in ValueTexts }
    \cup { << "undefined", ":", " " >> \o t : t \in ValueTexts }
    \cup { head \o << key, ":", " " >> \o t :
               head \in { << >>, << "a" >> },
               key \in {"label", "type", "status", "subgraph_id"},
               t \in ValueTexts }

\* the text of a str
Atoms(s) == CHOOSE t \in KnownTexts : Str(t) = s

\* "\n".join(lines)
RECURSIVE JoinLines(_)
JoinLines(lines) ==
    IF lines = << >> THEN << >>
    ELSE IF Len(lines) = 1 THEN lines[1]
    ELSE LET half == Len(lines) \div 2
         IN  JoinLines(SubSeq(lines, 1, half)) \o << "\n" >>
             \o JoinLines(SubSeq(lines, half + 1, Len(lines)))

\* f"{key}: {value}"
Line(key, value) == << key, ":", " " >> \o Atoms(value)

\* "[Node]", "[Edge]", "[Subgraph]"
Tag(name) == << "[", name, "]" >>

\* bool(value) of an Optional[str]
Truthy(value) == value # None /\ value # ""

\* the keys of a dict in the order of its items
DictKeys(dict) ==
    CHOOSE keys \in [1..Cardinality(DOMAIN dict) -> DOMAIN dict] :
        \A i, j \in DOMAIN keys : i # j => keys[i] # keys[j]

\* the lines of one block of to_toon_format
subgraph_lines(sg_id, sg_label) ==
    << Tag("Subgraph"), Line("id", sg_id), Line("label", sg_label), << >> >>

node_lines(node) ==
    << Tag("Node"), Line("id", node.id), Line("label", node.label), Line("type", node.type) >>
    \o (IF node.status # "active" THEN << Line("status", node.status) >> ELSE << >>)
    \o (IF Truthy(node.subgraph_id) THEN << Line("subgraph", node.subgraph_id) >> ELSE << >>)
    \o << << >> >>

edge_lines_without_label(edge) ==
    << Tag("Edge"), Line("source", edge.source), Line("target", edge.target), << >> >>


edge_lines(edge) ==
    << Tag("Edge"), Line("source", edge.source), Line("target", edge.target) >>
    \o (IF Truthy(edge.label) THEN << Line("label", edge.label) >> ELSE << >>)
    \o << << >> >>

\* the concatenation of a sequence of sequences
RECURSIVE Flatten(_)
Flatten(seqs) ==
    IF seqs = << >> THEN << >>
    ELSE IF Len(seqs) = 1 THEN seqs[1]
    ELSE LET half == Len(seqs) \div 2
         IN  Flatten(SubSeq(seqs, 1, half)) \o Flatten(SubSeq(seqs, half + 1, Len(seqs)))

\* Flowchart.to_toon_format(): the TOON text of a flowchart
to_toon_format(f) ==
    LET sg == SubgraphDict(f.subgraphs)
        keys == DictKeys(sg)
    IN  JoinLines(
            Flatten([i \in 1..Len(keys) |-> subgraph_lines(keys[i], sg[keys[i]])])
            \o Flatten([i \in 1..Len(f.nodes) |-> node_lines(f.nodes[i])])
            \o Flatten([i \in 1..Len(f.edges) |-> edge_lines(f.edges[i])]))

\* re.sub of a fence, the letters after it and one newline after them
remove_fences(text) ==
    LET IsFence(i) == i >= 1 /\ text[i] = Fence
        IsLang(i) == i >= 1 /\ text[i] \in LetterWords /\ IsFence(i - 1)
        IsMatched(i) ==
            \/ IsFence(i)
            \/ IsLang(i)
            \/ text[i] = "\n" /\ (IsFence(i - 1) \/ IsLang(i - 1))
        kept == SelectSeq([i \in 1..Len(text) |-> i], LAMBDA i : ~IsMatched(i))
    IN  [k \in 1..Len(kept) |-> text[kept[k]]]

\* the tag `name` in any letter case starts at atom i
IsTagAt(text, i, name) ==
    /\ i + 2 <= Len(text)
    /\ text[i] = "["
    /\ Lower(text[i + 1]) = name
    /\ text[i + 2] = "]"

\* where the tags `name` start, in the order of the text
TagStarts(text, name) ==
    SelectSeq([i \in 1..Len(text) |-> i], LAMBDA i : IsTagAt(text, i, name))

\* re.split(r'\[', block)[0]
UpToBracket(text) ==
    LET k == FirstIndex(text, LAMBDA atom : atom = "[")
    IN  IF k = 0 THEN text ELSE SubSeq(text, 1, k - 1)

\* the blocks that follow the tags `name`, each cut at the next bracket
Blocks(text, name) ==
    LET starts == TagStarts(text, name)
    IN  [k \in 1..Len(starts) |-> UpToBracket(SubSeq(text, starts[k] + 3, Len(text)))]

\* text.split('\n')
RECURSIVE SplitLines(_)
SplitLines(text) ==
    LET k == FirstIndex(text, LAMBDA atom : atom = "\n")
    IN  IF k = 0 THEN << text >>
        ELSE << SubSeq(text, 1, k - 1) >> \o SplitLines(SubSeq(text, k + 1, Len(text)))

RECURSIVE parse_lines(_, _)
parse_lines(lines, data) ==
    IF lines = << >> THEN data
    ELSE LET line == lines[1]
             k == FirstIndex(line, LAMBDA atom : atom = ":")
             key == Str(LowerAll(strip(SubSeq(line, 1, k - 1))))
             val == strip(SubSeq(line, k + 1, Len(line)))
         IN  parse_lines(Tail(lines), IF k = 0 THEN data ELSE Put(data, key, val))

\* TOONParser._parse_block(block): the dict of the lines "key: value"
parse_block(block) == parse_lines(SplitLines(strip(block)), << >>)

safe_id_same_case(raw) == IF Str(raw) = "end" THEN "node_end" ELSE Str(raw)


\* "node_end" if raw.lower() == "end" else raw
safe_id(raw) == IF Str(LowerAll(raw)) = "end" THEN "node_end" ELSE Str(raw)

\* the Node of a [Node] block that has id and label
parsed_node(data) ==
    Node(safe_id(strip(data["id"])),
         Str(strip(data["label"])),
         IF "type" \in DOMAIN data THEN Str(LowerAll(strip(data["type"]))) ELSE "process",
         IF "status" \in DOMAIN data /\ Str(LowerAll(strip(data["status"]))) \in NodeStatus
         THEN Str(LowerAll(strip(data["status"]))) ELSE "active",
         IF "subgraph" \in DOMAIN data THEN Str(strip(data["subgraph"])) ELSE None)

\* the Edge of an [Edge] block that has source and target
parsed_edge(data) ==
    Edge(safe_id(strip(data["source"])),
         safe_id(strip(data["target"])),
         IF "label" \in DOMAIN data /\ Str(strip(data["label"])) # ""
         THEN Str(strip(data["label"])) ELSE None)

RECURSIVE parsed_subgraphs(_, _)
parsed_subgraphs(datas, dict) ==
    IF datas = << >> THEN dict
    ELSE parsed_subgraphs(Tail(datas),
             Put(dict, Str(strip(datas[1]["id"])), Str(strip(datas[1]["label"]))))

\* TOONParser.parse(text) on a TOON text: the flowchart, or what it raises
parse(text) ==
    LET clean_text == strip(Filter(remove_fences(text), LAMBDA atom : atom # Fence))
        HasKeys(data, k1, k2) == k1 \in DOMAIN data /\ k2 \in DOMAIN data
        DataOf(name) == LET blocks == Blocks(clean_text, name)
                        IN  [k \in 1..Len(blocks) |-> parse_block(blocks[k])]
        subgraph_datas == Filter(DataOf("subgraph"), LAMBDA data : HasKeys(data, "id", "label"))
        node_datas == Filter(DataOf("node"), LAMBDA data : HasKeys(data, "id", "label"))
        edge_datas == Filter(DataOf("edge"), LAMBDA data : HasKeys(data, "source", "target"))
        subgraphs == IF DataOf("subgraph") = << >> THEN NoSubgraphs
                     ELSE { parsed_subgraphs(subgraph_datas, << >>) }
        nodes == [k \in 1..Len(node_datas) |-> parsed_node(node_datas[k])]
        edges == [k \in 1..Len(edge_datas) |-> parsed_edge(edge_datas[k])]
    IN  IF nodes = << >> THEN Raised("TOONParseError")
        ELSE Flowchart(nodes, edges, subgraphs)

(***************************************************************************)
(* The TOON codec by itself: a flowchart is written by to_toon_format and  *)
(* the text is parsed back, or a text of an LLM is parsed.                 *)
(***************************************************************************)
\* the nodes between the start and the end node: a plain node, and nodes
\* that differ from it in one field
ToonMiddleNodes ==
    { Node("a", "A", "process", "active", None),
      Node("b", "a b", "decision", "completed", "g"),
      Node("a", "a:b", "process", "missing", None),
      Node("a", "A", "process", "active", ""),
      Node("a", "", "process", "active", None),
      Node("End", "A", "process", "active", None),
      Node("END", "A", "process", "active", None),
      Node(" a", "A", "process", "active", None),
      Node("a[b", "A", "process", "active", None),
      Node("a", " a", "process", "active", None),
      Node("a", "a ", "process", "active", None),
      Node("a", "a\nb", "process", "active", None),
      Node("a", "a\nid:b", "process", "active", None),
      Node("a", "a[b", "process", "active", None),
      Node("a", Fence \o "a", "process", "active", None),
      Node("a", "a" \o Fence, "process", "active", None) }

ToonEndNodes ==
    { Node("node_end", "End", "end", "active", None),
      Node("end", "End", "end", "active", None) }

ToonEdgeLists ==
    { << >>,
      << Edge("start", "a", None), Edge("a", "node_end", "a b") >>,
      << Edge("start", "a", ""), Edge("a", "b", " a") >>,
      << Edge("start", "End", None), Edge("End", "end", None) >>,
      << Edge("a[b", "node_end", None) >>,
      << Edge("a", "node_end", "a[b") >> }

ToonSubgraphs == { NoSubgraphs, { << >> }, { [g |-> "G"] }, { [g |-> " G"] } }

\* the valid flowcharts given to to_toon_format
ToonFlowcharts ==
    { f \in [nodes : { << Node("start", "Start", "start", "active", None) >> \o middle \o << last >> :
                         middle \in SeqsUpTo(ToonMiddleNodes, MaxNodes - 2), last \in ToonEndNodes },
             edges : ToonEdgeLists,
             subgraphs : ToonSubgraphs] :
        Flowchart(f.nodes, f.edges, f.subgraphs).raised = NoError }

\* the ids an LLM writes for the end node and for the ends of an edge
RawIds ==
    { << "end" >>, << "End" >>, << "END" >>, << " ", "End", " " >>, << "node_end" >>, << "a" >> }

\* a text of an LLM: a start node, a node and an edge, fenced or not
RawText(id, source, target, fenced) ==
    (IF fenced THEN << Fence, "toon", "\n" >> ELSE << >>)
    \o JoinLines(<< Tag("Node"), << "id", ":", " ", "start" >>, << "label", ":", " ", "Start" >>,
                    << "type", ":", " ", "start" >>, << >>,
                    Tag("Node"), << "id", ":" >> \o id, << "label", ":", " ", "End" >>,
                    << "type", ":", " ", "end" >>, << >>,
                    Tag("Edge"), << "source", ":", " " >> \o source,
                    << "target", ":", " " >> \o target, << >> >>)
    \o (IF fenced THEN << Fence >> ELSE << >>)

RawTexts ==
    { RawText(id, source, target, fenced) :
        id \in RawIds, source \in RawIds, target \in RawIds, fenced \in BOOLEAN }

InitToon ==
    /\ \/ toon_flowchart \in ToonFlowcharts /\ toon_text = << >>
       \/ toon_flowchart = NoFlow /\ toon_text \in RawTexts
    /\ toon_parsed = Pending
    /\ DiagramIdle
    /\ ExtractIdle
    /\ HistoryIdle
    /\ DeployIdle
    /\ MergeIdle
    /\ FlowIdle
    /\ QuotaIdle
    /\ UIIdle

\* toon_text = toon_flowchart.to_toon_format()
ToToonFormat ==
    /\ toon_flowchart # NoFlow
    /\ toon_text = << >>
    /\ toon_text' = to_toon_format(toon_flowchart)
    /\ UNCHANGED << toon_flowchart, toon_parsed, diagramVars, extracted, historyVars, deployVars >>
    /\ UNCHANGED << mergeVars, flowVars, quotaVars, uiVars >>

\* toon_parsed = TOONParser.parse(toon_text)
Parse ==
    /\ toon_text # << >>
    /\ toon_parsed = Pending
    /\ toon_parsed' = parse(toon_text)
    /\ UNCHANGED << toon_flowchart, toon_text, diagramVars, extracted, historyVars, deployVars >>
    /\ UNCHANGED << mergeVars, flowVars, quotaVars, uiVars >>

NextToon == ToToonFormat \/ Parse

SpecToon == InitToon /\ [][NextToon]_vars

(***************************************************************************)
(* core/schemas.py: Flowchart.to_mermaid.  The diagram text is a sequence  *)
(* of atoms like the TOON text, with the marks of the diagram notation:    *)
(* the brackets, braces and parentheses of the shapes, the slash, the      *)
(* double and the single quote, the arrow "-->", the bar, "%%" and "#...".  *)
(***************************************************************************)
DoubleQuote == "\""

\* `k` spaces
Indent(k) == [i \in 1..k |-> " "]

\* Flowchart._get_node_shape(node_type)
get_node_shape(node_type) ==
    CASE Lower(node_type) \in {"start", "end"} -> "([ ])"
      [] Lower(node_type) = "process" -> "[ ]"
      [] Lower(node_type) = "decision" -> "{ }"
      [] Lower(node_type) = "io_data" -> "[/ /]"
      [] Lower(node_type) = "storage" -> "[( )]"
      [] OTHER -> "{{ }}"

\* Flowchart._get_status_color(status)
get_status_color(status) ==
    CASE status = "active" -> "#90EE90"
      [] status = "completed" -> "#87CEEB"
      [] status = "missing" -> "#FF6B6B"
      [] OTHER -> "#D3D3D3"

\* f"n_{id}" if id == "end" else id
escaped_id(id) == IF id = "end" THEN << "n_end" >> ELSE Atoms(id)

\* the line of the if-chain over the shape of node n, after `indent`
node_line(indent, n) ==
    LET shape == get_node_shape(n.type)
        quoted == << DoubleQuote >> \o Atoms(n.label) \o << DoubleQuote >>
    IN  indent \o escaped_id(n.id) \o
        (CASE shape \in {"([ ])", "[ ]"} -> << "[" >> \o quoted \o << "]" >>
           [] shape \in {"{ }", "{{ }}"} -> << "{" >> \o quoted \o << "}" >>
           [] shape = "[/ /]" -> << "[", "/" >> \o quoted \o << "/", "]" >>
           [] shape = "[( )]" -> << "[", "(" >> \o quoted \o << ")", "]" >>)

\* f'    style {safe_id} fill:{color}'
style_line(n) ==
    Indent(4) \o << "style", " " >> \o escaped_id(n.id)
              \o << " ", "fill", ":", get_status_color(n.status) >>

\* nodes_by_subgraph[sg_id]
nodes_by_subgraph(fc, sg_id) ==
    Filter(fc.nodes, LAMBDA n : Truthy(n.subgraph_id) /\ n.subgraph_id = sg_id)

\* the lines of one subgraph: its heading, its nodes, `end`
subgraph_block(fc, sg_id) ==
    << Indent(4) \o << "subgraph", " " >> \o Atoms(sg_id)
           \o << " ", "[", DoubleQuote >> \o Atoms(SubgraphDict(fc.subgraphs)[sg_id])
           \o << DoubleQuote, "]" >> >>
    \o [i \in 1..Len(nodes_by_subgraph(fc, sg_id)) |->
           node_line(Indent(8), nodes_by_subgraph(fc, sg_id)[i])]
    \o << Indent(4) \o << "end" >> >>

\* the line of edge e
edge_line(e) ==
    IF Truthy(e.label)
    THEN escaped_id(e.source) \o << "-->", "|", DoubleQuote >> \o Atoms(e.label)
             \o << DoubleQuote, "|" >> \o escaped_id(e.target)
    ELSE escaped_id(e.source) \o << "-->" >> \o escaped_id(e.target)

\* bool(self.subgraphs)
has_subgraphs(fc) == fc.subgraphs # {} /\ DOMAIN SubgraphDict(fc.subgraphs) # {}

\* the nodes that get a line and a style line, in the order of their lines
drawn_nodes(fc) ==
    IF has_subgraphs(fc)
    THEN LET keys == DictKeys(SubgraphDict(fc.subgraphs))
         IN  Filter(fc.nodes, LAMBDA n : ~Truthy(n.subgraph_id))
             \o Flatten([k \in 1..Len(keys) |-> nodes_by_subgraph(fc, keys[k])])
    ELSE fc.nodes

\* Flowchart.to_mermaid(), fc the flowchart
to_mermaid(fc) ==
    LET nodes_outside_subgraph == Filter(fc.nodes, LAMBDA n : ~Truthy(n.subgraph_id))
        keys == DictKeys(SubgraphDict(fc.subgraphs))
        declarations ==
            IF has_subgraphs(fc)
            THEN [i \in 1..Len(nodes_outside_subgraph) |->
                     node_line(<< >>, nodes_outside_subgraph[i])]
                 \o Flatten([k \in 1..Len(keys) |-> subgraph_block(fc, keys[k])])
            ELSE [i \in 1..Len(fc.nodes) |-> node_line(<< >>, fc.nodes[i])]
        style_lines == [i \in 1..Len(drawn_nodes(fc)) |-> style_line(drawn_nodes(fc)[i])]
        lines == << << "graph", " ", "TD" >> >>
                   \o declarations
                   \o [i \in 1..Len(fc.edges) |-> edge_line(fc.edges[i])]
                   \o (IF style_lines # << >> THEN << << >> >> \o style_lines ELSE << >>)
    IN  JoinLines(lines)

(***************************************************************************)
(* core/mermaid_parser.py: MermaidParser.parse.  A regular expression is   *)
(* matched on the atoms of a line: \w+ is one word, \s* a run of spaces,   *)
(* and a negated class a run of atoms up to the first one of the class.    *)
(***************************************************************************)
Quotes == {DoubleQuote, "'"}

\* the atoms that are not words
DiagramMarks ==
    {"[", "]", "(", ")", "{", "}", "/", "-->", "|", "%%", ":", " ", "\n", "", Fence}
    \cup Quotes \cup {"#90EE90", "#87CEEB", "#FF6B6B", "#D3D3D3"}

is_word(atom) == atom \notin DiagramMarks

at(line, i) == IF i \in 1..Len(line) THEN line[i] ELSE ""

\* re.sub(r'```mermaid\s*\n?', '', text).replace('```', '').strip()
remove_mermaid_fences(text) ==
    LET Opens(i) == i >= 1 /\ at(text, i) = Fence /\ at(text, i + 1) = "mermaid"
        IsMatched(j) ==
            \/ text[j] = Fence
            \/ Opens(j - 1)
            \/ \E i \in 1..(j - 2) : /\ Opens(i)
                                     /\ \A k \in (i + 2)..j : text[k] \in Whitespace
        kept == SelectSeq([i \in 1..Len(text) |-> i], LAMBDA i : ~IsMatched(i))
    IN  strip([k \in 1..Len(kept) |-> text[kept[k]]])

\* [line.strip() for line in clean_text.split('\n') if line.strip()]
stripped_lines(clean_text) ==
    LET all == SplitLines(clean_text)
    IN  Filter([i \in 1..Len(all) |-> strip(all[i])], LAMBDA line : line # << >>)

NoMatch == [matched |-> FALSE]

\* the index of the first atom of line from p on that is in `stop`, 0 if none
next_of(line, p, stop) ==
    IF \E i \in p..Len(line) : line[i] \in stop
    THEN CHOOSE i \in p..Len(line) : line[i] \in stop /\ \A j \in p..(i - 1) : line[j] \notin stop
    ELSE 0

\* re.match of one of node_patterns: (\w+), the opening marks, the label
\* (between quotes when `quoted`), the closing marks
match_shape(line, open, close, quoted) ==
    LET p == 2 + Len(open) + (IF quoted THEN 1 ELSE 0)
        e == next_of(line, p, IF quoted THEN Quotes ELSE {close[1]})
        rest == IF quoted THEN e + 1 ELSE e
    IN  IF /\ is_word(at(line, 1))
           /\ SubSeq(line, 2, 1 + Len(open)) = open
           /\ quoted => at(line, p - 1) \in Quotes
           /\ e > p
           /\ rest + Len(close) - 1 <= Len(line)
           /\ SubSeq(line, rest, rest + Len(close) - 1) = close
        THEN [matched |-> TRUE, node_id |-> line[1], label |-> SubSeq(line, p, e - 1)]
        ELSE NoMatch

\* node_patterns, in their order
node_patterns(line) ==
    << match_shape(line, << "[", "(" >>, << ")", "]" >>, TRUE),
       match_shape(line, << "[", "/" >>, << "/", "]" >>, TRUE),
       match_shape(line, << "[" >>, << "]" >>, TRUE),
       match_shape(line, << "{" >>, << "}" >>, TRUE),
       match_shape(line, << "[", "(" >>, << ")", "]" >>, FALSE),
       match_shape(line, << "[" >>, << "]" >>, FALSE),
       match_shape(line, << "{" >>, << "}" >>, FALSE) >>

\* the first pattern that matches, or NoMatch
node_match(line) ==
    LET k == FirstIndex(node_patterns(line), LAMBDA m : m.matched)
    IN  IF k = 0 THEN NoMatch ELSE node_patterns(line)[k]

\* node_id.endswith("_end"), for the ids of this model
ends_with_end(node_id) == node_id \in {"node_end", "n_end", "a_end"}

\* the type read from the marks of the line
shape_type(line, node_id, nodes) ==
    IF InList("{", line) /\ InList("}", line) THEN "decision"
    ELSE IF InList("(", line) /\ InList(")", line)
    THEN IF node_id = "start" \/ (nodes = << >> /\ node_id # "node_end") THEN "start"
         ELSE IF node_id = "node_end" \/ ends_with_end(node_id) THEN "end"
         ELSE "process"
    ELSE IF InList("/", line) THEN "io_data"
    ELSE "process"

\* "node_end" if id.lower() == "end" else id
end_alias(id) == IF Lower(id) = "end" THEN "node_end" ELSE id

\* the index of the first atom of line from p on that is not a space
skip_spaces(line, p) ==
    IF \E i \in p..Len(line) : line[i] \notin Whitespace
    THEN CHOOSE i \in p..Len(line) :
             line[i] \notin Whitespace /\ \A j \in p..(i - 1) : line[j] \in Whitespace
    ELSE Len(line) + 1

\* re.match of edge_patterns: the labelled arrow, then the plain one
edge_match(line) ==
    LET arrow == skip_spaces(line, 2)
        after == skip_spaces(line, arrow + 1)
        quote == skip_spaces(line, after + 1)
        close == next_of(line, quote + 1, Quotes)
        bar == skip_spaces(line, close + 1)
        target == skip_spaces(line, bar + 1)
    IN  IF ~(is_word(at(line, 1)) /\ at(line, arrow) = "-->") THEN NoMatch
        ELSE IF /\ at(line, after) = "|"
                /\ at(line, quote) \in Quotes
                /\ close > quote + 1
                /\ at(line, bar) = "|"
                /\ is_word(at(line, target))
        THEN [matched |-> TRUE, source_id |-> line[1], target_id |-> line[target],
              label |-> Str(strip(SubSeq(line, quote + 1, close - 1)))]
        ELSE IF is_word(at(line, after))
        THEN [matched |-> TRUE, source_id |-> line[1], target_id |-> line[after],
              label |-> None]
        ELSE NoMatch

\* for line in lines: the nodes and the edges collected
RECURSIVE scan_lines(_, _, _)
scan_lines(lines, nodes, edges) ==
    IF lines = << >> THEN [nodes |-> nodes, edges |-> edges]
    ELSE LET line == lines[1]
             m == node_match(line)
             em == edge_match(line)
             safe == end_alias(m.node_id)
         IN  IF \/ at(line, 1) = "%%"
                \/ at(line, 1) = "style" /\ at(line, 2) = " "
                \/ at(line, 1) = "subgraph" /\ at(line, 2) = " "
                \/ line = << "end" >>
             THEN scan_lines(Tail(lines), nodes, edges)
             ELSE IF m.matched
             THEN scan_lines(Tail(lines),
                      IF safe \in NodeIds(nodes) THEN nodes
                      ELSE Append(nodes, Node(safe, Str(strip(m.label)),
                                              shape_type(line, m.node_id, nodes),
                                              "active", None)),
                      edges)
             ELSE IF em.matched
             THEN scan_lines(Tail(lines), nodes,
                      Append(edges, Edge(end_alias(em.source_id), end_alias(em.target_id),
                                         em.label)))
             ELSE scan_lines(Tail(lines), nodes, edges)

\* the nodes and edges that the loop of parse recognises in the text
recognised(mermaid_text) ==
    scan_lines(stripped_lines(remove_mermaid_fences(mermaid_text)), << >>, << >>)

\* the retyping of the first node to start and of node_end or the last node
\* to end, both decided on the types found by the loop
retyped(nodes) ==
    LET node_types == { nodes[i].type : i \in 1..Len(nodes) }
        with_start == IF "start" \notin node_types
                      THEN [nodes EXCEPT ![1].type = "start"] ELSE nodes
        end_node == FirstIndex(nodes, LAMBDA n : n.id = "node_end")
    IN  IF "end" \in node_types THEN with_start
        ELSE IF end_node # 0 THEN [with_start EXCEPT ![end_node].type = "end"]
        ELSE [with_start EXCEPT ![Len(nodes)].type = "end"]

\* MermaidParser.parse(mermaid_text)
MermaidParser_parse(mermaid_text) ==
    LET found == recognised(mermaid_text)
    IN  IF found.nodes = << >> THEN Raised("TOONParseError")
        ELSE Flowchart(retyped(found.nodes), found.edges, NoSubgraphs)

\* the flowcharts drawn: start, a node `a` of any other type and status, and
\* an end node named node_end or end; each node in no subgraph or in the
\* subgraph `g` or `b`; no mapping, a mapping with `g`, or one with both
DiagramNodeLists ==
    { << Node("start", "Start", "start", "active", sg[1]),
         Node("a", "A", type, status, sg[2]),
         Node(last, "End", "end", "active", sg[3]) >> :
        type \in valid_types \ {"start", "end"},
        status \in NodeStatus,
        last \in {"node_end", "end"},
        sg \in [1..3 -> {None, "g", "b"}] }

DiagramEdgeLists(nodes) ==
    { << >>,
      << Edge("start", "a", None), Edge("a", nodes[3].id, "x") >>,
      << Edge("a", "a", ""), Edge(nodes[3].id, "b", None) >> }

DiagramSubgraphs == { NoSubgraphs, { [g |-> "G"] }, { [g |-> "G", b |-> "A"] } }

DiagramFlowcharts ==
    { [nodes |-> nodes, edges |-> edges, subgraphs |-> subgraphs] :
        nodes \in DiagramNodeLists,
        edges \in UNION { DiagramEdgeLists(v) : v \in DiagramNodeLists },
        subgraphs \in DiagramSubgraphs }

\* the lines of the diagram texts that come from elsewhere
DiagramLines ==
    { << "graph", " ", "TD" >>,
      << "%%", " ", "x" >>,
      << " ", "subgraph", " ", "g", " ", "[", DoubleQuote, "G", DoubleQuote, "]" >>,
      << " ", "end" >>,
      << "node_end", "[", DoubleQuote, "End", DoubleQuote, "]" >>,
      << "a", "[", DoubleQuote, "A", DoubleQuote, "]" >>,
      << "a", "[", "'", "a", " ", "b", "'", "]" >>,
      << "start", "[", "(", DoubleQuote, "Start", DoubleQuote, ")", "]" >>,
      << "b", "[", "(", "A", ")", "]" >>,
      << "b", "{", DoubleQuote, "A", DoubleQuote, "}" >>,
      << "a_end", "{", "A", "}" >>,
      << "x", "[", "/", DoubleQuote, "A", DoubleQuote, "/", "]" >>,
      << "End", "[", "A", "(", "x", ")", "]" >>,
      << "start", "(", "[", DoubleQuote, "Start", DoubleQuote, "]", ")" >>,
      << "a", "-->", "b" >>,
      << "a", " ", "-->", " ", "|", "'", "x", "'", "|", " ", "END" >>,
      << " ", "style", " ", "a", " ", "fill", ":", "#90EE90" >> }

MaxDiagramLines == 3

\* texts of up to MaxDiagramLines lines, the last one also in a code fence
DiagramTexts ==
    { JoinLines(lines) : lines \in SeqsUpTo(DiagramLines, MaxDiagramLines) \ { << >> } }
    \cup { << Fence, "mermaid", "\n" >> \o JoinLines(lines) \o << "\n", Fence >> :
             lines \in SeqsUpTo(DiagramLines, 1) }

InitMermaid ==
    /\ \/ mermaid_flowchart \in DiagramFlowcharts /\ mermaid_code = << >>
       \/ mermaid_flowchart = NoFlow /\ mermaid_code \in DiagramTexts
    /\ mermaid_parsed = Pending
    /\ toon_flowchart = NoFlow
    /\ toon_text = << >>
    /\ toon_parsed = Pending
    /\ ExtractIdle
    /\ HistoryIdle
    /\ DeployIdle
    /\ MergeIdle
    /\ FlowIdle
    /\ QuotaIdle
    /\ UIIdle

\* mermaid_code = current_flow.to_mermaid()
ToMermaid ==
    /\ mermaid_flowchart # NoFlow
    /\ mermaid_code = << >>
    /\ mermaid_code' = to_mermaid(mermaid_flowchart)
    /\ UNCHANGED << mermaid_flowchart, mermaid_parsed >>
    /\ UNCHANGED << toon_flowchart, toon_text, toon_parsed, extracted, historyVars, deployVars >>
    /\ UNCHANGED << mergeVars, flowVars, quotaVars, uiVars >>

\* mermaid_parsed = MermaidParser.parse(mermaid_code)
MermaidParse ==
    /\ mermaid_code # << >>
    /\ mermaid_parsed = Pending
    /\ mermaid_parsed' = MermaidParser_parse(mermaid_code)
    /\ UNCHANGED << mermaid_flowchart, mermaid_code >>
    /\ UNCHANGED << toon_flowchart, toon_text, toon_parsed, extracted, historyVars, deployVars >>
    /\ UNCHANGED << mergeVars, flowVars, quotaVars, uiVars >>

NextMermaid == ToMermaid \/ MermaidParse

SpecMermaid == InitMermaid /\ [][NextMermaid]_vars


(***************************************************************************)
(* FlowExtractor.extract_node_range by itself, on the valid flowcharts and *)
(* the selections of the merge.                                            *)
(***************************************************************************)
InitExtract ==
    /\ original_flowchart \in
          [nodes : ValidNodeLists(MergeNodePool("old", "active", "sg1")),
           edges : SeqsUpTo(MergeEdgePool("old"), MaxEdges),
           subgraphs : { { [sg1 |-> "group"] } }]
    /\ selected_node_ids \in SelectedLists
    /\ changed_partial = NoFlow
    /\ merged = Pending
    /\ extracted = Pending
    /\ CodecIdle
    /\ HistoryIdle
    /\ DeployIdle
    /\ FlowIdle
    /\ QuotaIdle
    /\ UIIdle

\* extracted = FlowExtractor.extract_node_range(original_flowchart, selected_node_ids)
ExtractNodeRange ==
    /\ extracted = Pending
    /\ extracted' = extract_node_range(original_flowchart, selected_node_ids)
    /\ UNCHANGED << mergeVars, codecVars, historyVars, deployVars >>
    /\ UNCHANGED << flowVars, quotaVars, uiVars >>

NextExtract == ExtractNodeRange

SpecExtract == InitExtract /\ [][NextExtract]_vars

(***************************************************************************)
(* FlowExtractor.extract_node_range followed by                            *)
(* FlowMerger.merge_partial_change of the unedited extract, on valid       *)
(* flowcharts whose edges carry one of two labels, so that two edges with  *)
(* the same (source, target) key may differ.                               *)
(***************************************************************************)
InitExtractThenMerge ==
    /\ original_flowchart \in
          [nodes : ValidNodeLists(MergeNodePool("old", "active", "sg1")),
           edges : SeqsUpTo(MergeEdgePool("old") \cup MergeEdgePool("other"), MaxEdges),
           subgraphs : { { [sg1 |-> "group"] } }]
    /\ selected_node_ids \in SelectedLists
    /\ changed_partial = NoFlow
    /\ merged = Pending
    /\ extracted = Pending
    /\ CodecIdle
    /\ HistoryIdle
    /\ DeployIdle
    /\ FlowIdle
    /\ QuotaIdle
    /\ UIIdle

\* merged = FlowMerger.merge_partial_change(original_flowchart, extracted, selected_node_ids)
MergeExtracted ==
    /\ extracted # Pending
    /\ extracted.raised = NoError
    /\ merged = Pending
    /\ changed_partial' = extracted.value
    /\ merged' = merge_partial_change(original_flowchart, extracted.value, selected_node_ids)
    /\ UNCHANGED << original_flowchart, selected_node_ids, extracted >>
    /\ UNCHANGED << codecVars, historyVars, deployVars >>
    /\ UNCHANGED << flowVars, quotaVars, uiVars >>

NextExtractThenMerge == ExtractNodeRange \/ MergeExtracted

SpecExtractThenMerge == InitExtractThenMerge /\ [][NextExtractThenMerge]_vars


(***************************************************************************)
(* core/history_mgr.py: the TOON files.  A directory is the files of the   *)
(* sessions of this model by name, and the number of files of other        *)
(* sessions, which are older than a file that has just been written.       *)
(***************************************************************************)
MAX_SESSION_JSON_FILES == 200

cleanup_toon_files_newest_first(dir) ==
    IF MAX_SESSION_JSON_FILES <= 0 THEN dir
    ELSE IF Cardinality(DOMAIN dir.files) + dir.others <= MAX_SESSION_JSON_FILES THEN dir
    ELSE [dir EXCEPT !.files = << >>]

\* HistoryManager.cleanup_toon_files() after a write: the oldest files
\* beyond the limit are deleted
cleanup_toon_files(dir) ==
    IF MAX_SESSION_JSON_FILES <= 0 THEN dir
    ELSE IF Cardinality(DOMAIN dir.files) + dir.others <= MAX_SESSION_JSON_FILES THEN dir
    ELSE [dir EXCEPT !.others = MAX_SESSION_JSON_FILES - Cardinality(DOMAIN dir.files)]

\* HistoryManager.save_toon_file(session_id, flowchart), for a valid
\* session id: the directory afterwards
save_toon_file(dir, session_id, f) ==
    cleanup_toon_files([dir EXCEPT !.files = Put(dir.files, session_id, to_toon_format(f))])

\* except Exception as e: raise ValueError(...) from e
AsValueError(outcome) ==
    IF outcome.raised # NoError THEN Raised("ValueError") ELSE outcome

\* HistoryManager.load_toon_file(session_id); None is NoFlow
load_toon_file(dir, session_id) ==
    IF sanitize_session_id(session_id) # NoError THEN Raised("ValueError")
    ELSE IF session_id \in DOMAIN dir.files THEN AsValueError(parse(dir.files[session_id]))
    ELSE Returned(NoFlow)

\* the merge of append_toon_log, before Flowchart(...) and self-repair
append_merged_flow(existing_flow, new_flowchart) ==
    [nodes |-> append_merged_nodes(existing_flow.nodes, new_flowchart.nodes),
     edges |-> append_merged_edges(existing_flow.edges, new_flowchart.edges),
     subgraphs |-> append_merged_subgraphs(existing_flow.subgraphs, new_flowchart.subgraphs)]

\* merged_flow = Flowchart(...); merged_flow = merged_flow.apply_logic_gap_detection()
RepairedOutcome(constructed) ==
    IF constructed.raised # NoError THEN constructed
    ELSE apply_logic_gap_detection(constructed.value)

\* what a call of append_toon_log leaves: its arguments, what it loaded, the
\* merged flow before Flowchart(...) and self-repair, what it returned or
\* raised, and the directory afterwards
AppendCall(dir, session_id, new_flowchart, existing_flow, merged_flow, result, saved) ==
    [call |-> [session_id |-> session_id, new_flowchart |-> new_flowchart,
               existing_flow |-> existing_flow, merged_flow |-> merged_flow,
               result |-> result],
     dir |-> IF result.raised # NoError THEN dir ELSE saved]

\* append_toon_log from the merge on
append_toon_log_merged(dir, session_id, new_flowchart, existing_flow, merged_flow, result) ==
    AppendCall(dir, session_id, new_flowchart, existing_flow, merged_flow, result,
               save_toon_file(dir, session_id, result.value))

\* append_toon_log after load_toon_file
append_toon_log_loaded(dir, session_id, new_flowchart, existing_flow) ==
    IF existing_flow.raised # NoError
    THEN AppendCall(dir, session_id, new_flowchart, existing_flow, NoFlow, existing_flow, dir)
    ELSE IF existing_flow.value = NoFlow
    THEN append_toon_log_merged(dir, session_id, new_flowchart, existing_flow, NoFlow,
                                Returned(new_flowchart))
    ELSE append_toon_log_merged(
             dir, session_id, new_flowchart, existing_flow,
             append_merged_flow(existing_flow.value, new_flowchart),
             RepairedOutcome(Flowchart(
                 append_merged_nodes(existing_flow.value.nodes, new_flowchart.nodes),
                 append_merged_edges(existing_flow.value.edges, new_flowchart.edges),
                 append_merged_subgraphs(existing_flow.value.subgraphs,
                                         new_flowchart.subgraphs))))

\* HistoryManager.append_toon_log(session_id, new_flowchart) over the files
append_toon_log_call(dir, session_id, new_flowchart) ==
    append_toon_log_loaded(dir, session_id, new_flowchart, load_toon_file(dir, session_id))

\* the flowcharts of the snapshots saved earlier
ExistingFlowcharts ==
    [nodes : { << Node("start", "Start", "start", "active", None),
                  Node("a", "A", "process", "active", None),
                  Node("node_end", "End", "end", "active", None) >>,
               << Node("start", "Start", "start", "active", None),
                  Node("node_end", "End", "end", "active", None) >>,
               << Node("node_end", "End", "end", "active", None),
                  Node("b", "A", "process", "active", "g"),
                  Node("start", "Start", "start", "active", None) >> },
     edges : { << >>,
               << Edge("start", "a", None), Edge("a", "node_end", "A") >>,
               << Edge("start", "node_end", "A"), Edge("start", "node_end", "G") >> },
     subgraphs : { NoSubgraphs, { [g |-> "G", x |-> "A"] } }]

\* the nodes of the new flows: they relabel the nodes of a snapshot, or
\* retype them, or are new
NewNodePool ==
    { Node("start", "a b", "start", "completed", None),
      Node("node_end", "a b", "end", "completed", None),
      Node("a", "a b", "end", "completed", "g"),
      Node("b", "a b", "start", "completed", None) }

\* new flows with awkward strings: one node between start and end
AwkwardNewFlowcharts ==
    { f \in ToonFlowcharts : Len(f.nodes) = 3 /\ f.edges = << >> /\ f.subgraphs = NoSubgraphs }

\* the subgraph mapping of the new flows that have one
NewSubgraphs == { [g |-> "a b", a |-> "A"] }

NewFlowcharts ==
    [nodes : ValidNodeLists(NewNodePool),
     edges : { << >>,
               << Edge("start", "a", "a b"), Edge("b", "node_end", None) >>,
               << Edge("start", "node_end", None), Edge("start", "node_end", "a b") >>,
               << Edge("a", "x", "") >> },
     subgraphs : { NoSubgraphs }]
    \cup [nodes : { << Node("b", "a b", "start", "completed", None),
                       Node("a", "a b", "end", "completed", "g") >> },
           edges : { << >>, << Edge("start", "a", "a b"), Edge("b", "node_end", None) >> },
           subgraphs : { NewSubgraphs }]
    \cup AwkwardNewFlowcharts

\* the directory before the call: no snapshot of the session, or the one
\* that save_toon_file wrote, and with the files of other sessions the limit
\* of the clean-up is reached or not; the new flowchart of the call
InitAppend ==
    /\ toon_dir \in
          [files : { << >> }, others : {0, MAX_SESSION_JSON_FILES}]
          \cup [files : { [s \in {"default_session"} |-> to_toon_format(existing)] :
                            existing \in ExistingFlowcharts },
                 others : {0}]
    /\ append_call \in { [NoCall EXCEPT !.new_flowchart = f] : f \in NewFlowcharts }
    /\ toon_loaded = Pending
    /\ SessionsIdle
    /\ DeployIdle
    /\ CodecIdle
    /\ ExtractIdle
    /\ MergeIdle
    /\ FlowIdle
    /\ QuotaIdle
    /\ UIIdle

\* history_mgr.append_toon_log(session_id, new_flowchart)
AppendToonLog ==
    /\ append_call.result = Pending
    /\ \E session_id \in SessionNames :
          \E done \in { append_toon_log_call(toon_dir, session_id, append_call.new_flowchart) } :
              /\ append_call' = done.call
              /\ toon_dir' = done.dir
    /\ UNCHANGED << toon_loaded, sessionVars, codecVars, extracted, deployVars >>
    /\ UNCHANGED << mergeVars, flowVars, quotaVars, uiVars >>

\* history_mgr.load_toon_file(session_id) after the call
ReloadToonFile ==
    /\ append_call.result # Pending
    /\ toon_loaded = Pending
    /\ toon_loaded' = load_toon_file(toon_dir, append_call.session_id)
    /\ UNCHANGED << toon_dir, append_call, sessionVars, codecVars, extracted, deployVars >>
    /\ UNCHANGED << mergeVars, flowVars, quotaVars, uiVars >>

NextAppend == AppendToonLog \/ ReloadToonFile

SpecAppend == InitAppend /\ [][NextAppend]_vars


(***************************************************************************)
(* The sessions of the two stores: the files of HistoryManager under       *)
(* storage/sessions (core/history_mgr.py) and the rows of the table        *)
(* user_sessions (core/persistence/postgres_store.py).  A JSON value is    *)
(* tagged with its kind; the list of a document is a sequence.             *)
(***************************************************************************)
JStr(s) == [json |-> "string", value |-> s]

JNull == [json |-> "null", value |-> ""]

\* the object {"value": s}, as an Enum was once written
JValueObject(s) == [json |-> "object", value |-> s]

\* an Optional[str] in JSON
JOptional(v) == IF v = None THEN JNull ELSE JStr(v)

\* flow.model_dump(mode='json')
model_dump(f) ==
    [nodes |-> [i \in 1..Len(f.nodes) |->
                  [id |-> JStr(f.nodes[i].id), label |-> JStr(f.nodes[i].label),
                   type |-> JStr(f.nodes[i].type), status |-> JStr(f.nodes[i].status),
                   subgraph_id |-> JOptional(f.nodes[i].subgraph_id)]],
     edges |-> [i \in 1..Len(f.edges) |->
                  [source |-> JStr(f.edges[i].source), target |-> JStr(f.edges[i].target),
                   label |-> JOptional(f.edges[i].label)]],
     subgraphs |-> IF f.subgraphs = NoSubgraphs THEN [json |-> "null", value |-> << >>]
                   ELSE [json |-> "object", value |-> SubgraphDict(f.subgraphs)]]

\* [flow.model_dump(mode='json') for flow in history]
dump_history(history) == [i \in 1..Len(history) |-> model_dump(history[i])]

\* what a session file holds: a JSON document, blank text, text that
\* json.loads rejects, or bytes that are not UTF-8
JsonText(data) == [kind |-> "json", data |-> data]

BlankText == [kind |-> "blank", data |-> << >>]

MalformedText == [kind |-> "malformed", data |-> << >>]

UndecodableBytes == [kind |-> "undecodable", data |-> << >>]

\* storage_dir / f"{session_id}.json" and its with_suffix('.json.broken')
SessionFile(session_id) == [stem |-> session_id, suffix |-> ".json"]

BrokenFile(session_id) == [stem |-> session_id, suffix |-> ".json.broken"]

\* storage_dir.glob("*.json"), without the names that end with .broken
SessionJsonFiles(dir) == { p \in DOMAIN dir.files : p.suffix = ".json" }

\* HistoryManager.list_sessions()
list_sessions(dir) == { p.stem : p \in SessionJsonFiles(dir) }

cleanup_session_files_newest_first(dir) ==
    IF MAX_SESSION_JSON_FILES <= 0 THEN dir
    ELSE IF Cardinality(SessionJsonFiles(dir)) + dir.others <= MAX_SESSION_JSON_FILES THEN dir
    ELSE [dir EXCEPT !.files = [p \in (DOMAIN dir.files) \ SessionJsonFiles(dir) |-> dir.files[p]]]

\* HistoryManager.cleanup_session_files() after a write: the oldest files
\* beyond the limit are deleted
cleanup_session_files(dir) ==
    IF MAX_SESSION_JSON_FILES <= 0 THEN dir
    ELSE IF Cardinality(SessionJsonFiles(dir)) + dir.others <= MAX_SESSION_JSON_FILES THEN dir
    ELSE [dir EXCEPT !.others = MAX_SESSION_JSON_FILES - Cardinality(SessionJsonFiles(dir))]

\* the status of a node dict as HistoryManager.load_session rewrites it
local_status_not_blank(st) == IF st = JStr("") THEN JStr("active") ELSE st

local_status(st) ==
    IF st.json = "object" THEN local_status_not_blank(JStr(st.value))
    ELSE IF st.json # "string" THEN JStr("None")
    ELSE local_status_not_blank(st)

\* the status of a node dict after _normalize_flowchart_dict
postgres_status(st) ==
    IF st.json = "object" THEN JStr(st.value)
    ELSE IF st = JNull \/ st = JStr("") THEN JStr("active")
    ELSE st

\* the fields of Node, Edge and Flowchart accept these values
IsStr(v) == v.json = "string"

IsOptionalStr(v) == v.json \in {"string", "null"}

\* the Optional[str] of a JSON value
FromOptional(v) == IF v.json = "null" THEN None ELSE v.value

item_is_well_typed(item) ==
    /\ \A i \in 1..Len(item.nodes) :
          /\ IsStr(item.nodes[i].id) /\ IsStr(item.nodes[i].label) /\ IsStr(item.nodes[i].type)
          /\ IsStr(item.nodes[i].status) /\ item.nodes[i].status.value \in NodeStatus
          /\ IsOptionalStr(item.nodes[i].subgraph_id)
    /\ \A i \in 1..Len(item.edges) :
          /\ IsStr(item.edges[i].source) /\ IsStr(item.edges[i].target)
          /\ IsOptionalStr(item.edges[i].label)

\* Flowchart(**item)
flowchart_from_item(item) ==
    IF ~item_is_well_typed(item) THEN Raised("ValidationError")
    ELSE Flowchart(
             [i \in 1..Len(item.nodes) |->
                Node(item.nodes[i].id.value, item.nodes[i].label.value, item.nodes[i].type.value,
                     item.nodes[i].status.value, FromOptional(item.nodes[i].subgraph_id))],
             [i \in 1..Len(item.edges) |->
                Edge(item.edges[i].source.value, item.edges[i].target.value,
                     FromOptional(item.edges[i].label))],
             IF item.subgraphs.json = "null" THEN NoSubgraphs ELSE { item.subgraphs.value })

\* the item with the status of each node rewritten
with_status(item, Status(_)) ==
    [item EXCEPT !.nodes = [i \in 1..Len(item.nodes) |->
                              [item.nodes[i] EXCEPT !.status = Status(item.nodes[i].status)]]]

\* the flowcharts of the items that Flowchart(**item) accepts
loaded_flowcharts(outcomes) ==
    LET accepted == SelectSeq(outcomes, LAMBDA o : o.raised = NoError)
    IN  [i \in 1..Len(accepted) |-> accepted[i].value]

\* the loop of HistoryManager.load_session over the items of the document
local_flowcharts(data) ==
    loaded_flowcharts([i \in 1..Len(data) |->
                         flowchart_from_item(with_status(data[i], local_status))])

\* the loop of PostgresHistoryStore.load_session over the items of the row
postgres_flowcharts(data) ==
    loaded_flowcharts([i \in 1..Len(data) |->
                         flowchart_from_item(with_status(data[i], postgres_status))])

\* one call of a store: what it was given, what it found stored for the
\* session, and what it returned or raised
SessionCall(op, session_id, history, found, raised, returned, listed) ==
    [op |-> op, session_id |-> session_id, history |-> history, found |-> found,
     raised |-> raised, returned |-> returned, listed |-> listed]

\* what a store holds for a session: no file or row, or a kind of content
local_found(dir, session_id) ==
    IF SessionFile(session_id) \in DOMAIN dir.files
    THEN dir.files[SessionFile(session_id)].kind ELSE "absent"

postgres_found(rows, session_id) == IF session_id \in DOMAIN rows THEN "json" ELSE "absent"

\* a call with an invalid session id, which changes nothing
InvalidSessionId(op, session_id, history, stored) ==
    [call |-> SessionCall(op, session_id, history, "invalid", "ValueError", << >>, {}),
     after |-> stored]

\* HistoryManager.save_session(session_id, history)
local_save_session(dir, session_id, history) ==
    IF sanitize_session_id(session_id) # NoError
    THEN InvalidSessionId("save_session", session_id, history, dir)
    ELSE [call |-> SessionCall("save_session", session_id, history,
                               local_found(dir, session_id), NoError, << >>, {}),
          after |-> cleanup_session_files(
                        [dir EXCEPT !.files = Put(dir.files, SessionFile(session_id),
                                                  JsonText(dump_history(history)))])]

\* file_path.rename(backup_path)
rename_to_broken(dir, session_id) ==
    [dir EXCEPT !.files =
        [p \in ((DOMAIN dir.files) \ { SessionFile(session_id) }) \cup { BrokenFile(session_id) } |->
            IF p = BrokenFile(session_id) THEN dir.files[SessionFile(session_id)]
            ELSE dir.files[p]]]

\* HistoryManager.load_session(session_id) from the file on: a blank file,
\* a document, text that json.loads rejects (JSONDecodeError), bytes that
\* f.read() rejects (UnicodeDecodeError, which is not a JSONDecodeError)
local_load_content(dir, session_id, content) ==
    IF content.kind = "blank"
    THEN [call |-> SessionCall("load_session", session_id, << >>, "blank", NoError, << >>, {}),
          after |-> dir]
    ELSE IF content.kind = "json"
    THEN [call |-> SessionCall("load_session", session_id, << >>, "json", NoError,
                               local_flowcharts(content.data), {}),
          after |-> dir]
    ELSE IF content.kind = "malformed"
    THEN [call |-> SessionCall("load_session", session_id, << >>, "malformed", "ValueError",
                               << >>, {}),
          after |-> rename_to_broken(dir, session_id)]
    ELSE [call |-> SessionCall("load_session", session_id, << >>, content.kind, "ValueError",
                               << >>, {}),
          after |-> dir]

\* HistoryManager.load_session(session_id)
local_load_session(dir, session_id) ==
    IF sanitize_session_id(session_id) # NoError
    THEN InvalidSessionId("load_session", session_id, << >>, dir)
    ELSE IF SessionFile(session_id) \notin DOMAIN dir.files
    THEN [call |-> SessionCall("load_session", session_id, << >>, "absent", NoError, << >>, {}),
          after |-> dir]
    ELSE local_load_content(dir, session_id, dir.files[SessionFile(session_id)])

\* PostgresHistoryStore.save_session(session_id, history): the upsert
postgres_save_session(rows, session_id, history) ==
    IF sanitize_session_id(session_id) # NoError
    THEN InvalidSessionId("save_session", session_id, history, rows)
    ELSE [call |-> SessionCall("save_session", session_id, history,
                               postgres_found(rows, session_id), NoError, << >>, {}),
          after |-> Put(rows, session_id, dump_history(history))]

\* PostgresHistoryStore.load_session(session_id)
postgres_load_session(rows, session_id) ==
    IF sanitize_session_id(session_id) # NoError
    THEN InvalidSessionId("load_session", session_id, << >>, rows)
    ELSE IF session_id \notin DOMAIN rows
    THEN [call |-> SessionCall("load_session", session_id, << >>, "absent", NoError, << >>, {}),
          after |-> rows]
    ELSE [call |-> SessionCall("load_session", session_id, << >>, "json", NoError,
                               postgres_flowcharts(rows[session_id]), {}),
          after |-> rows]

\* the histories saved: none, one flowchart, two flowcharts in either order
SessionFlowcharts ==
    { initial_flow,
      [nodes |-> << Node("node_end", "End", "end", "completed", "g"),
                    Node("a", "", "decision", "missing", ""),
                    Node("start", "Start", "start", "active", None) >>,
       edges |-> << Edge("start", "a", ""), Edge("a", "x", "a b"), Edge("a", "x", None) >>,
       subgraphs |-> { [g |-> "G"] }] }

SessionHistories ==
    { h \in SeqsUpTo(SessionFlowcharts, MaxHistory) :
        \A i, j \in 1..Len(h) : i # j => h[i] # h[j] }

\* documents written by earlier versions or by hand: the initial flow with
\* another status for its first node, next to a flowchart of today
LegacyStatuses == { JValueObject("completed"), JValueObject(""), JNull, JStr(""), JStr("bogus") }

LegacyDocuments ==
    { << [model_dump(initial_flow) EXCEPT !.nodes[1].status = st], model_dump(initial_flow) >> :
        st \in LegacyStatuses }

\* the store of the deployment (core/persistence/factory.py) and what it
\* holds for the session: nothing, a document, and for the files a blank
\* one, one that json.loads rejects, or one that cannot be decoded
InitSession ==
    /\ \/ /\ storage_dir \in
                [files : { << >> }, others : {0, MAX_SESSION_JSON_FILES}]
                \cup [files : { [p \in { SessionFile("default_session") } |-> content] :
                                  content \in { BlankText, MalformedText, UndecodableBytes }
                                              \cup { JsonText(data) : data \in LegacyDocuments } },
                      others : {0}]
                \cup [files : { [p \in { SessionFile("default_session"),
                                          BrokenFile("default_session") } |-> MalformedText] },
                      others : {0}]
          /\ user_sessions = << >>
          /\ session_calls = [store |-> "local", calls |-> << >>]
       \/ /\ storage_dir = [files |-> << >>, others |-> 0]
          /\ user_sessions \in
                { << >>, [s \in {"default_session"} |-> << >>] }
                \cup { [s \in {"default_session"} |-> data] : data \in LegacyDocuments }
          /\ session_calls = [store |-> "postgres", calls |-> << >>]
    /\ ToonFilesIdle
    /\ DeployIdle
    /\ CodecIdle
    /\ ExtractIdle
    /\ MergeIdle
    /\ FlowIdle
    /\ QuotaIdle
    /\ UIIdle

\* the files, the rows and the calls after one more call of the store
AfterSessionCall(done) ==
    /\ session_calls' = [session_calls EXCEPT !.calls = Append(@, done.call)]
    /\ IF session_calls.store = "local"
       THEN storage_dir' = done.after /\ UNCHANGED user_sessions
       ELSE user_sessions' = done.after /\ UNCHANGED storage_dir

\* store.save_session(session_id, history)
StoreSaveSession ==
    /\ Len(session_calls.calls) < MaxSessionCalls
    /\ \E session_id \in SessionNames, history \in SessionHistories :
          \* one history is enough to see an invalid session id refused
          /\ sanitize_session_id(session_id) # NoError => history = << >>
          /\ \E done \in { IF session_calls.store = "local"
                         THEN local_save_session(storage_dir, session_id, history)
                         ELSE postgres_save_session(user_sessions, session_id, history) } :
              AfterSessionCall(done)
    /\ UNCHANGED << toonFileVars, codecVars, extracted, deployVars >>
    /\ UNCHANGED << mergeVars, flowVars, quotaVars, uiVars >>

\* store.load_session(session_id)
StoreLoadSession ==
    /\ Len(session_calls.calls) < MaxSessionCalls
    /\ \E session_id \in SessionNames :
          \E done \in { IF session_calls.store = "local"
                         THEN local_load_session(storage_dir, session_id)
                         ELSE postgres_load_session(user_sessions, session_id) } :
              AfterSessionCall(done)
    /\ UNCHANGED << toonFileVars, codecVars, extracted, deployVars >>
    /\ UNCHANGED << mergeVars, flowVars, quotaVars, uiVars >>

\* store.list_sessions()
StoreListSessions ==
    /\ Len(session_calls.calls) < MaxSessionCalls
    /\ session_calls' =
          [session_calls EXCEPT !.calls =
              Append(@, SessionCall("list_sessions", "", << >>, "", NoError, << >>,
                                    IF session_calls.store = "local"
                                    THEN list_sessions(storage_dir)
                                    ELSE DOMAIN user_sessions))]
    /\ UNCHANGED << storage_dir, user_sessions >>
    /\ UNCHANGED << toonFileVars, codecVars, extracted, deployVars >>
    /\ UNCHANGED << mergeVars, flowVars, quotaVars, uiVars >>

NextSession == StoreSaveSession \/ StoreLoadSession \/ StoreListSessions

SpecSession == InitSession /\ [][NextSession]_vars


(***************************************************************************)
(* core/persistence: the stores of several users.  The files of the local  *)
(* stores are the files under storage/ by path, each with its content and  *)
(* its modification time; the rows of the Postgres stores are the rows of  *)
(* user_sessions by (user_key, session_id).  Every call happens at a later *)
(* time than the calls before it.                                          *)
(***************************************************************************)
to_user_dir_key_of_nothing(user_key) == "sha256:"

\* to_user_dir_key(user_key): the first 32 hexadecimal digits of the
\* SHA-256 of the trimmed, lower-cased key; the digests of different texts
\* are different
to_user_dir_key(user_key) == "sha256:" \o Str(LowerAll(strip(user_key)))

\* LocalHistoryStore(user_key=...): the directory key of its folders and of
\* its rate file
LocalHistoryStore(user_key) ==
    to_user_dir_key(IF user_key = << >> THEN << "anonymous" >> ELSE user_key)

\* the paths of a local store
FilePath(root, user_dir, stem, suffix) ==
    [root |-> root, user_dir |-> user_dir, stem |-> stem, suffix |-> suffix]

json_path(user_dir, session_id) == FilePath("storage/sessions", user_dir, session_id, ".json")

toon_path(user_dir, session_id) == FilePath("storage/toon_files", user_dir, session_id, ".md")

rate_file_path(user_dir) == FilePath("storage/rate_limits", "", user_dir, ".json")

\* file_path.resolve(): a name that starts with ../ is a file of the parent
resolve(path) ==
    IF path.stem = "../x" THEN FilePath(path.root, "", "x", path.suffix) ELSE path

\* HistoryManager._validate_file_path(file_path, base_dir), where base_dir
\* is the folder of the path as it was built: the exception it raises
validate_file_path(path) ==
    IF resolve(path).root = path.root /\ resolve(path).user_dir = path.user_dir
    THEN NoError ELSE "ValueError"

\* folder.glob("*")
Folder(files, root, user_dir) ==
    { p \in DOMAIN files : p.root = root /\ p.user_dir = user_dir }

\* what a call of a store leaves: the exception or the value, the files or
\* rows afterwards, and the paths whose unlink raised
StoreOutcome(raised, returned, after, failed) ==
    [raised |-> raised, returned |-> returned, after |-> after, failed |-> failed]

\* p.unlink() for each of the paths; the unlink of a stuck path raises
unlink_all(files, paths, stuck) == [p \in (DOMAIN files) \ (paths \ stuck) |-> files[p]]

newest_beyond(files, found, limit) ==
    IF limit <= 0 \/ Cardinality(found) <= limit THEN {}
    ELSE { p \in found :
             Cardinality({ q \in found : files[q].mtime < files[p].mtime }) >= limit }

\* files[: len(files) - limit] of the files found, sorted by st_mtime
oldest_beyond(files, found, limit) ==
    IF limit <= 0 \/ Cardinality(found) <= limit THEN {}
    ELSE { p \in found :
             Cardinality({ q \in found : files[q].mtime > files[p].mtime }) >= limit }

\* the write of save_session or save_toon_file and the clean-up after it,
\* with max_files as config.MAX_SESSION_JSON_FILES
write_and_cleanup(files, path, content, now, max_files, stuck) ==
    LET saved == Put(files, path, [content |-> content, mtime |-> now])
        old == oldest_beyond(saved,
                             { p \in Folder(saved, path.root, path.user_dir) :
                                 p.suffix = path.suffix },
                             max_files)
    IN  StoreOutcome(NoError, None, unlink_all(saved, old, stuck), old \cap stuck)

\* the session files of a user's HistoryManager, by name
storage_dir_of(files, user_dir) ==
    [files |-> [p \in { [stem |-> q.stem, suffix |-> q.suffix] :
                          q \in Folder(files, "storage/sessions", user_dir) } |->
                  files[FilePath("storage/sessions", user_dir, p.stem, p.suffix)].content],
     others |-> 0]

\* the TOON files of a user's HistoryManager, by session
toon_dir_of(files, user_dir) ==
    [files |-> [id \in { q.stem : q \in Folder(files, "storage/toon_files", user_dir) } |->
                  files[toon_path(user_dir, id)].content],
     others |-> 0]

\* LocalHistoryStore.save_session(session_id, history)
LocalHistoryStore_save_session(files, user_dir, session_id, history, now, max_files, stuck) ==
    IF sanitize_session_id(session_id) # NoError
    THEN StoreOutcome("ValueError", None, files, {})
    ELSE IF validate_file_path(json_path(user_dir, session_id)) # NoError
    THEN StoreOutcome("ValueError", None, files, {})
    ELSE write_and_cleanup(files, resolve(json_path(user_dir, session_id)),
                           JsonText(dump_history(history)), now, max_files, stuck)

\* LocalHistoryStore.save_toon_file(session_id, flowchart)
LocalHistoryStore_save_toon_file(files, user_dir, session_id, f, now, max_files, stuck) ==
    IF sanitize_session_id(session_id) # NoError
    THEN StoreOutcome("ValueError", None, files, {})
    ELSE IF validate_file_path(toon_path(user_dir, session_id)) # NoError
    THEN StoreOutcome("ValueError", None, files, {})
    ELSE write_and_cleanup(files, resolve(toon_path(user_dir, session_id)), to_toon_format(f),
                           now, max_files, stuck)

\* LocalHistoryStore.append_toon_log(session_id, new_flowchart), given the
\* outcome of the merge
LocalHistoryStore_append_toon_log(files, user_dir, session_id, result, now, max_files, stuck) ==
    IF result.raised # NoError THEN StoreOutcome(result.raised, None, files, {})
    ELSE IF validate_file_path(toon_path(user_dir, session_id)) # NoError
    THEN StoreOutcome("ValueError", None, files, {})
    ELSE [write_and_cleanup(files, resolve(toon_path(user_dir, session_id)),
                            to_toon_format(result.value), now, max_files, stuck)
            EXCEPT !.returned = result.value]

delete_session_json_only(files, user_dir, session_id, stuck) ==
    IF session_id \notin SESSION_ID_PATTERN THEN StoreOutcome("ValueError", None, files, {})
    ELSE LET found == { json_path(user_dir, session_id) } \cap DOMAIN files
         IN  StoreOutcome(NoError, found \ stuck # {}, unlink_all(files, found, stuck),
                          found \cap stuck)

\* LocalHistoryStore.delete_session(session_id)
LocalHistoryStore_delete_session(files, user_dir, session_id, stuck) ==
    IF session_id \notin SESSION_ID_PATTERN THEN StoreOutcome("ValueError", None, files, {})
    ELSE LET found == { json_path(user_dir, session_id), toon_path(user_dir, session_id) }
                        \cap DOMAIN files
         IN  StoreOutcome(NoError, found \ stuck # {}, unlink_all(files, found, stuck),
                          found \cap stuck)

\* LocalHistoryStore.cleanup_retention(), with days as config.RETENTION_DAYS
LocalHistoryStore_cleanup_retention(files, user_dir, now, days, stuck) ==
    IF days <= 0 THEN StoreOutcome(NoError, 0, files, {})
    ELSE LET old == { p \in Folder(files, "storage/sessions", user_dir)
                            \cup Folder(files, "storage/toon_files", user_dir) :
                        files[p].mtime < now - days }
         IN  StoreOutcome(NoError, Cardinality(old \ stuck), unlink_all(files, old, stuck),
                          old \cap stuck)

\* the count of today in the rate file of a user
rate_count(files, user_dir) ==
    IF rate_file_path(user_dir) \in DOMAIN files
    THEN Get(files[rate_file_path(user_dir)].content, today, 0) ELSE 0

\* LocalHistoryStore.consume_llm_request(daily_limit), one call at a time
LocalHistoryStore_consume_llm_request(files, user_dir, now, limit) ==
    IF limit <= 0 \/ limit_reached(rate_count(files, user_dir), limit)
    THEN StoreOutcome(RateLimitExceededError, None, files, {})
    ELSE StoreOutcome(NoError, rate_count(files, user_dir) + 1,
                      Put(files, rate_file_path(user_dir),
                          [content |-> Put(IF rate_file_path(user_dir) \in DOMAIN files
                                           THEN files[rate_file_path(user_dir)].content
                                           ELSE NoData,
                                           today, rate_count(files, user_dir) + 1),
                           mtime |-> now]),
                      {})

\* PostgresHistoryStore(dsn, user_key, retention_days).user_key
PostgresHistoryStore(user_key) == Str(LowerAll(strip(user_key)))

\* the primary key (user_key, session_id) of user_sessions
RowKey(user_key, session_id) == [user_key |-> user_key, session_id |-> session_id]

\* toon_flow JSONB without a value
SqlNull == [sql |-> "NULL"]

\* INSERT INTO user_sessions (user_key, session_id, history_json, updated_at)
\* ... ON CONFLICT (user_key, session_id) DO UPDATE SET history_json = ...
upsert_history_json(rows, key, payload, now) ==
    Put(rows, key,
        IF key \in DOMAIN rows
        THEN [rows[key] EXCEPT !.history_json = payload, !.updated_at = now]
        ELSE [history_json |-> payload, toon_flow |-> SqlNull, updated_at |-> now])

upsert_toon_flow_whole_row(rows, key, payload, now) ==
    Put(rows, key, [history_json |-> << >>, toon_flow |-> payload, updated_at |-> now])

\* INSERT INTO user_sessions (user_key, session_id, toon_flow, updated_at)
\* ... ON CONFLICT (user_key, session_id) DO UPDATE SET toon_flow = ...
upsert_toon_flow(rows, key, payload, now) ==
    Put(rows, key,
        IF key \in DOMAIN rows
        THEN [rows[key] EXCEPT !.toon_flow = payload, !.updated_at = now]
        ELSE [history_json |-> << >>, toon_flow |-> payload, updated_at |-> now])

\* PostgresHistoryStore.save_session(session_id, history)
PostgresHistoryStore_save_session(rows, user_key, session_id, history, now) ==
    IF sanitize_session_id(session_id) # NoError
    THEN StoreOutcome("ValueError", None, rows, {})
    ELSE StoreOutcome(NoError, None,
                      upsert_history_json(rows, RowKey(user_key, session_id),
                                          dump_history(history), now), {})

\* PostgresHistoryStore.save_toon_file(session_id, flowchart)
PostgresHistoryStore_save_toon_file(rows, user_key, session_id, f, now) ==
    IF sanitize_session_id(session_id) # NoError
    THEN StoreOutcome("ValueError", None, rows, {})
    ELSE StoreOutcome(NoError, None,
                      upsert_toon_flow(rows, RowKey(user_key, session_id), model_dump(f), now),
                      {})

\* PostgresHistoryStore.load_toon_file(session_id); None is NoFlow, also
\* for a value that Flowchart(...) rejects
PostgresHistoryStore_load_toon_file(rows, user_key, session_id) ==
    IF sanitize_session_id(session_id) # NoError THEN Raised("ValueError")
    ELSE IF RowKey(user_key, session_id) \notin DOMAIN rows THEN Returned(NoFlow)
    ELSE IF rows[RowKey(user_key, session_id)].toon_flow = SqlNull THEN Returned(NoFlow)
    ELSE LET loaded == postgres_flowcharts(<< rows[RowKey(user_key, session_id)].toon_flow >>)
         IN  IF loaded = << >> THEN Returned(NoFlow) ELSE Returned(loaded[1])

merge_flowcharts_unrepaired(existing, new_flowchart) ==
    Flowchart(append_merged_nodes(existing.nodes, new_flowchart.nodes),
              append_merged_edges(existing.edges, new_flowchart.edges),
              append_merged_subgraphs(existing.subgraphs, new_flowchart.subgraphs))

\* _merge_flowcharts(existing, new_flowchart) and apply_logic_gap_detection
merge_flowcharts_repaired(existing, new_flowchart) ==
    RepairedOutcome(Flowchart(append_merged_nodes(existing.nodes, new_flowchart.nodes),
                              append_merged_edges(existing.edges, new_flowchart.edges),
                              append_merged_subgraphs(existing.subgraphs,
                                                      new_flowchart.subgraphs)))

\* PostgresHistoryStore.append_toon_log(session_id, new_flowchart), given
\* the outcome of load_toon_file
PostgresHistoryStore_append_toon_log(rows, user_key, session_id, new_flowchart, existing, now) ==
    IF existing.raised # NoError THEN StoreOutcome(existing.raised, None, rows, {})
    ELSE LET result == IF existing.value = NoFlow THEN Returned(new_flowchart)
                       ELSE merge_flowcharts_repaired(existing.value, new_flowchart)
         IN  IF result.raised # NoError THEN StoreOutcome(result.raised, None, rows, {})
             ELSE StoreOutcome(NoError, result.value,
                               upsert_toon_flow(rows, RowKey(user_key, session_id),
                                                model_dump(result.value), now), {})

\* PostgresHistoryStore.delete_session(session_id)
PostgresHistoryStore_delete_session(rows, user_key, session_id) ==
    IF sanitize_session_id(session_id) # NoError
    THEN StoreOutcome("ValueError", None, rows, {})
    ELSE StoreOutcome(NoError, RowKey(user_key, session_id) \in DOMAIN rows,
                      Remove(rows, RowKey(user_key, session_id)), {})

\* PostgresHistoryStore.cleanup_retention(): the rows of all users
PostgresHistoryStore_cleanup_retention(rows, now, days) ==
    IF days <= 0 THEN StoreOutcome(NoError, 0, rows, {})
    ELSE StoreOutcome(NoError,
                      Cardinality({ k \in DOMAIN rows : rows[k].updated_at < now - days }),
                      [k \in { k \in DOMAIN rows : rows[k].updated_at >= now - days } |-> rows[k]],
                      {})

\* the history_json of the rows of a user, by session
user_sessions_of(rows, user_key) ==
    [id \in { k.session_id : k \in { k \in DOMAIN rows : k.user_key = user_key } } |->
        rows[RowKey(user_key, id)].history_json]

\* PostgresHistoryStore.list_toon_files()
PostgresHistoryStore_list_toon_files(rows, user_key) ==
    { k.session_id : k \in { k \in DOMAIN rows : k.user_key = user_key
                                                   /\ rows[k].toon_flow # SqlNull } }


\* the user keys given to the stores: a login email as entered, the same
\* email as the login gate returns it, and the email of another user
UserKeys == { << "A", "@", "x", " " >>, << "a", "@", "x" >>, << "b", "@", "x" >> }

\* the session ids given to the stores, two of them invalid
StoreSessionIds == {"default_session", "s2", "../x", ""}

\* a flowchart other than the initial one
longer_flow ==
    [nodes |-> << Node("start", "Start", "start", "active", None),
                  Node("a", "A", "process", "active", None),
                  Node("node_end", "End", "end", "active", None) >>,
     edges |-> << Edge("start", "a", None), Edge("a", "node_end", None) >>,
     subgraphs |-> NoSubgraphs]

StoreFlowcharts == { initial_flow, longer_flow }

StoreHistories == { << >>, << initial_flow >>, << longer_flow, initial_flow >> }

\* config.MAX_SESSION_JSON_FILES of the deployment: one file, or the default
MaxFiles == { 1, MAX_SESSION_JSON_FILES }

\* config.RETENTION_DAYS of the deployment, in the unit of the clock
RetentionDays == { 0, 2 }

\* the time of the first call; the files and rows of Init are older
FirstCall == 3

\* the files of a list of (path, content, mtime)
FilesOf(entries) ==
    [p \in { e[1] : e \in entries } |->
        LET e == CHOOSE e \in entries : e[1] = p IN [content |-> e[2], mtime |-> e[3]]]

UserDirA == to_user_dir_key(<< "a", "@", "x" >>)

UserDirB == to_user_dir_key(<< "b", "@", "x" >>)

\* no file; or sessions, TOON files, a quarantined file and a rate file of
\* two users, written by earlier calls of their stores
InitialDisks ==
    { << >>,
      FilesOf({ << json_path(UserDirA, "default_session"),
                   JsonText(dump_history(<< initial_flow >>)), 1 >>,
                << toon_path(UserDirA, "default_session"), to_toon_format(initial_flow), 1 >>,
                << FilePath("storage/sessions", UserDirA, "s2", ".json.broken"),
                   MalformedText, 0 >>,
                << rate_file_path(UserDirA), Put(NoData, today, 1), 1 >>,
                << json_path(UserDirB, "default_session"),
                   JsonText(dump_history(<< longer_flow >>)), 2 >>,
                << toon_path(UserDirB, "s2"), to_toon_format(longer_flow), 2 >> }) }

\* no row; or rows of two users, written by earlier calls of their stores
InitialRows ==
    { << >>,
      [k \in { RowKey("a@x", "default_session"), RowKey("a@x", "s2"),
               RowKey("b@x", "default_session") } |->
          IF k = RowKey("a@x", "default_session")
          THEN [history_json |-> dump_history(<< initial_flow >>),
                toon_flow |-> model_dump(initial_flow), updated_at |-> 1]
          ELSE IF k = RowKey("a@x", "s2")
          THEN [history_json |-> << >>, toon_flow |-> model_dump(longer_flow),
                updated_at |-> 2]
          ELSE [history_json |-> dump_history(<< longer_flow >>), toon_flow |-> SqlNull,
                updated_at |-> 1]] }

\* the store of the deployment (core/persistence/factory.py), and what the
\* stores of its users hold
InitStore ==
    /\ \/ /\ store_call = [op |-> "none", store |-> "local"]
          /\ disk \in InitialDisks
          /\ pg_rows = << >>
       \/ /\ store_call = [op |-> "none", store |-> "postgres"]
          /\ disk = << >>
          /\ pg_rows \in InitialRows
    /\ clock = FirstCall
    /\ StartIdle
    /\ HistoryIdle
    /\ CodecIdle
    /\ ExtractIdle
    /\ MergeIdle
    /\ FlowIdle
    /\ QuotaIdle
    /\ UIIdle

\* the paths under the roots where no file can be deleted
Stuck(files, roots) == { p \in DOMAIN files : p.root \in roots }

\* the arguments tried with an invalid session id: one set is enough
OnlyOnce(session_id, first) == sanitize_session_id(session_id) # NoError => first

\* the files, the rows, the time and the last call after a call of a store
AfterStoreCall(op, user_key, session_id, given, limit, done) ==
    /\ store_call' =
          [store |-> store_call.store, op |-> op, user_key |-> user_key,
           session_id |-> session_id, given |-> given, limit |-> limit,
           raised |-> done.raised, returned |-> done.returned, failed |-> done.failed,
           before |-> IF store_call.store = "local" THEN disk ELSE pg_rows, now |-> clock]
    /\ IF store_call.store = "local"
       THEN disk' = done.after /\ UNCHANGED pg_rows
       ELSE pg_rows' = done.after /\ UNCHANGED disk
    /\ clock' = clock + 1
    /\ UNCHANGED << mergeVars, flowVars, quotaVars, uiVars, codecVars, extracted, historyVars,
                    startVars >>

\* store.save_session(session_id, history)
TenantSaveSession ==
    /\ clock < FirstCall + MaxStoreCalls
    /\ \E user_key \in UserKeys, session_id \in StoreSessionIds, history \in StoreHistories,
          max_files \in MaxFiles, roots \in SUBSET {"storage/sessions"} :
          /\ OnlyOnce(session_id, history = << >> /\ max_files = 1 /\ roots = {})
          /\ store_call.store = "postgres" => max_files = 1 /\ roots = {}
          /\ \E done \in { IF store_call.store = "local"
                           THEN LocalHistoryStore_save_session(
                                    disk, LocalHistoryStore(user_key), session_id, history,
                                    clock, max_files, Stuck(disk, roots))
                           ELSE PostgresHistoryStore_save_session(
                                    pg_rows, PostgresHistoryStore(user_key), session_id,
                                    history, clock) } :
                AfterStoreCall("save_session", user_key, session_id, history, max_files, done)

\* store.save_toon_file(session_id, flowchart)
TenantSaveToonFile ==
    /\ clock < FirstCall + MaxStoreCalls
    /\ \E user_key \in UserKeys, session_id \in StoreSessionIds, f \in StoreFlowcharts,
          max_files \in MaxFiles, roots \in SUBSET {"storage/toon_files"} :
          /\ OnlyOnce(session_id, f = initial_flow /\ max_files = 1 /\ roots = {})
          /\ store_call.store = "postgres" => max_files = 1 /\ roots = {}
          /\ \E done \in { IF store_call.store = "local"
                           THEN LocalHistoryStore_save_toon_file(
                                    disk, LocalHistoryStore(user_key), session_id, f,
                                    clock, max_files, Stuck(disk, roots))
                           ELSE PostgresHistoryStore_save_toon_file(
                                    pg_rows, PostgresHistoryStore(user_key), session_id, f,
                                    clock) } :
                AfterStoreCall("save_toon_file", user_key, session_id, f, max_files, done)

\* store.append_toon_log(session_id, new_flowchart)
TenantAppendToonLog ==
    /\ clock < FirstCall + MaxStoreCalls
    /\ \E user_key \in UserKeys, session_id \in StoreSessionIds, f \in StoreFlowcharts,
          max_files \in MaxFiles, roots \in SUBSET {"storage/toon_files"} :
          /\ OnlyOnce(session_id, f = initial_flow /\ max_files = 1 /\ roots = {})
          /\ store_call.store = "postgres" => max_files = 1 /\ roots = {}
          /\ \E done \in { IF store_call.store = "local"
                           THEN LocalHistoryStore_append_toon_log(
                                    disk, LocalHistoryStore(user_key), session_id,
                                    append_toon_log_call(
                                        toon_dir_of(disk, LocalHistoryStore(user_key)),
                                        session_id, f).call.result,
                                    clock, max_files, Stuck(disk, roots))
                           ELSE PostgresHistoryStore_append_toon_log(
                                    pg_rows, PostgresHistoryStore(user_key), session_id, f,
                                    PostgresHistoryStore_load_toon_file(
                                        pg_rows, PostgresHistoryStore(user_key), session_id),
                                    clock) } :
                AfterStoreCall("append_toon_log", user_key, session_id, f, max_files, done)

\* store.delete_session(session_id)
TenantDeleteSession ==
    /\ clock < FirstCall + MaxStoreCalls
    /\ \E user_key \in UserKeys, session_id \in StoreSessionIds,
          roots \in SUBSET {"storage/sessions", "storage/toon_files"} :
          /\ OnlyOnce(session_id, roots = {})
          /\ store_call.store = "postgres" => roots = {}
          /\ \E done \in { IF store_call.store = "local"
                           THEN LocalHistoryStore_delete_session(
                                    disk, LocalHistoryStore(user_key), session_id,
                                    Stuck(disk, roots))
                           ELSE PostgresHistoryStore_delete_session(
                                    pg_rows, PostgresHistoryStore(user_key), session_id) } :
                AfterStoreCall("delete_session", user_key, session_id, << >>, 0, done)

\* store.cleanup_retention()
TenantCleanupRetention ==
    /\ clock < FirstCall + MaxStoreCalls
    /\ \E user_key \in UserKeys, days \in RetentionDays,
          roots \in SUBSET {"storage/sessions", "storage/toon_files"} :
          /\ store_call.store = "postgres" => roots = {}
          /\ \E done \in { IF store_call.store = "local"
                           THEN LocalHistoryStore_cleanup_retention(
                                    disk, LocalHistoryStore(user_key), clock, days,
                                    Stuck(disk, roots))
                           ELSE PostgresHistoryStore_cleanup_retention(pg_rows, clock, days) } :
                AfterStoreCall("cleanup_retention", user_key, "", << >>, days, done)

\* store.consume_llm_request(daily_limit) of a local store, one call at a
\* time
TenantConsumeLlmRequest ==
    /\ clock < FirstCall + MaxStoreCalls
    /\ store_call.store = "local"
    /\ \E user_key \in UserKeys, limit \in 0..MaxDailyLimit :
          \E done \in { LocalHistoryStore_consume_llm_request(
                            disk, LocalHistoryStore(user_key), clock, limit) } :
              AfterStoreCall("consume_llm_request", user_key, "", << >>, limit, done)

NextStore ==
    \/ TenantSaveSession
    \/ TenantSaveToonFile
    \/ TenantAppendToonLog
    \/ TenantDeleteSession
    \/ TenantCleanupRetention
    \/ TenantConsumeLlmRequest

SpecStore == InitStore /\ [][NextStore]_vars


\* the flowcharts that a store may hold as the snapshot of a session: those
\* of the earlier saves, and flowcharts with awkward strings that an
\* append_toon_log without a snapshot stored as they were
StoredSnapshots ==
    { f \in ExistingFlowcharts \cup AwkwardNewFlowcharts :
        Flowchart(f.nodes, f.edges, f.subgraphs) = Returned(f) }

\* what a call returned or raised
OutcomeOf(done) == IF done.raised = NoError THEN Returned(done.returned) ELSE Raised(done.raised)

\* a local store and a Postgres store of the same user that hold the same
\* snapshot for the session, and the new flowchart of the call
InitBoth ==
    /\ \E existing \in StoredSnapshots :
          /\ disk = FilesOf({ << toon_path(UserDirA, "default_session"),
                                 to_toon_format(existing), 1 >> })
          /\ pg_rows = [k \in { RowKey("a@x", "default_session") } |->
                          [history_json |-> << >>, toon_flow |-> model_dump(existing),
                           updated_at |-> 1]]
          /\ store_call \in { [op |-> "none", store |-> "both", saved |-> existing, given |-> f] :
                                f \in NewFlowcharts }
    /\ clock = FirstCall
    /\ StartIdle
    /\ HistoryIdle
    /\ CodecIdle
    /\ ExtractIdle
    /\ MergeIdle
    /\ FlowIdle
    /\ QuotaIdle
    /\ UIIdle

\* the two stores and the call after append_toon_log on both
AfterAppendToBoth(existing_local, existing_postgres, done_local, done_postgres) ==
    /\ store_call' = [store_call EXCEPT !.op = "append_toon_log"]
                        @@ [existing_local |-> existing_local,
                            existing_postgres |-> existing_postgres,
                            local |-> OutcomeOf(done_local),
                            postgres |-> OutcomeOf(done_postgres)]
    /\ disk' = done_local.after
    /\ pg_rows' = done_postgres.after
    /\ clock' = clock + 1
    /\ UNCHANGED << mergeVars, flowVars, quotaVars, uiVars, codecVars, extracted, historyVars,
                    startVars >>

\* append_toon_log(session_id, new_flowchart) through the local store and
\* through the Postgres store of the user
AppendToBoth ==
    /\ store_call.op = "none"
    /\ store_call.store = "both"
    /\ \E existing_local \in { load_toon_file(toon_dir_of(disk, UserDirA), "default_session") },
          existing_postgres \in { PostgresHistoryStore_load_toon_file(
                                      pg_rows, "a@x", "default_session") } :
          \E done_local \in { LocalHistoryStore_append_toon_log(
                                  disk, UserDirA, "default_session",
                                  append_toon_log_loaded(
                                      toon_dir_of(disk, UserDirA), "default_session",
                                      store_call.given, existing_local).call.result,
                                  clock, MAX_SESSION_JSON_FILES, {}) },
             done_postgres \in { PostgresHistoryStore_append_toon_log(
                                     pg_rows, "a@x", "default_session", store_call.given,
                                     existing_postgres, clock) } :
              AfterAppendToBoth(existing_local, existing_postgres, done_local, done_postgres)

NextBoth == AppendToBoth

SpecBoth == InitBoth /\ [][NextBoth]_vars



(***************************************************************************)
(* core/ui/auth.py: the login gate at the start of a script run.           *)
(***************************************************************************)
\* the deployment: core.config, the secrets, the Streamlit version, the
\* Postgres connection string and the state of the database server
Deployment(require_auth, allowed_emails, allowed_domains, auth_secrets, login_capable,
           backend, retention_days, postgres_dsn, database) ==
    [REQUIRE_AUTH |-> require_auth, ALLOWED_EMAILS |-> allowed_emails,
     ALLOWED_EMAIL_DOMAINS |-> allowed_domains, auth_secrets |-> auth_secrets,
     login_capable |-> login_capable, SESSION_STORE_BACKEND |-> backend,
     RETENTION_DAYS |-> retention_days, postgres_dsn |-> postgres_dsn,
     database |-> database]

\* st.secrets: no file (get raises), no [auth] section, an [auth] section
\* with no key, one with keys missing, a complete one
AuthSecrets == {"unreadable", "absent", "empty", "incomplete", "valid"}

\* bool(st.secrets.get("auth")), False when get raises
auth_cfg_present(secrets) == secrets \in {"incomplete", "valid"}

\* _validate_oidc_secrets_or_show_error(st): True iff the section is complete
validate_oidc_secrets_or_show_error(secrets) == secrets = "valid"

\* user_email.split("@")[-1] if "@" in user_email else ""
email_domain(user_email) ==
    LET ats == { i \in 1..Len(user_email) : user_email[i] = "@" }
    IN  IF ats = {} THEN ""
        ELSE LET last == CHOOSE i \in ats : \A j \in ats : j <= i
             IN  Str(SubSeq(user_email, last + 1, Len(user_email)))

\* user_email not in app_config.ALLOWED_EMAILS, for a list that is not empty
account_refused(cfg, user_email) ==
    cfg.ALLOWED_EMAILS # {} /\ Str(user_email) \notin cfg.ALLOWED_EMAILS

\* domain not in app_config.ALLOWED_EMAIL_DOMAINS, for a list that is not empty
domain_refused(cfg, user_email) ==
    /\ cfg.ALLOWED_EMAIL_DOMAINS # {}
    /\ email_domain(user_email) \notin cfg.ALLOWED_EMAIL_DOMAINS

\* st.stop() after what was shown; return user_key
Stopped(shown) == [returned |-> FALSE, user_key |-> "", shown |-> shown]

ReturnedKey(user_key, shown) == [returned |-> TRUE, user_key |-> user_key, shown |-> shown]

\* resolve_user_key_or_stop(st)
resolve_user_key_or_stop(cfg, user) ==
    LET require_auth == cfg.REQUIRE_AUTH \/ auth_cfg_present(cfg.auth_secrets)
        user_email == LowerAll(strip(user.email))
    IN  IF ~require_auth THEN ReturnedKey("anonymous", "none")
        ELSE IF ~auth_cfg_present(cfg.auth_secrets) THEN Stopped("secrets_error")
        ELSE IF ~cfg.login_capable THEN Stopped("update_streamlit")
        ELSE IF ~user.is_logged_in THEN Stopped("login_button")
        ELSE IF user_email = << >> THEN Stopped("no_email")
        ELSE IF account_refused(cfg, user_email) THEN Stopped("account_not_allowed")
        ELSE IF domain_refused(cfg, user_email) THEN Stopped("domain_not_allowed")
        ELSE ReturnedKey(Str(user_email), "logout_button")

\* the emails of the identity provider: none, an address with capitals and
\* a trailing blank, addresses of two domains, one with two "@", and claims
\* that are no address
Emails ==
    { << >>, << "A", "@", "x", " " >>, << "b", "@", "x" >>, << "a", "@", "y" >>,
      << "a", "@", "y", "@", "x" >>, << "x" >>, << "anonymous" >> }

Visitors ==
    { NoVisitor } \cup [is_logged_in : {TRUE}, email : Emails]

\* the store part of a deployment, when only the gate runs
GateDeployments ==
    { Deployment(require_auth, allowed_emails, allowed_domains, auth_secrets, login_capable,
                 << "auto" >>, 30, << >>, "up") :
        require_auth \in BOOLEAN,
        allowed_emails \in { {}, {"a@x", "a@y"} },
        allowed_domains \in { {}, {"x"} },
        auth_secrets \in AuthSecrets,
        login_capable \in BOOLEAN }

InitGate ==
    /\ env \in GateDeployments
    /\ st_user \in Visitors
    /\ boot = NoBoot
    /\ TenantIdle
    /\ HistoryIdle
    /\ CodecIdle
    /\ ExtractIdle
    /\ MergeIdle
    /\ FlowIdle
    /\ QuotaIdle
    /\ UIIdle

GateUnchanged ==
    UNCHANGED << mergeVars, flowVars, quotaVars, uiVars, codecVars, extracted, historyVars,
                 tenantVars, env >>

\* a script run reaches resolve_user_key_or_stop(st)
ResolveUserKeyOrStop ==
    /\ boot' = [op |-> "resolve_user_key_or_stop", visitor |-> st_user]
                  @@ resolve_user_key_or_stop(env, st_user)
    /\ UNCHANGED st_user
    /\ GateUnchanged

\* the visitor presses "Log in": _login_callback(st), and the identity
\* provider signs somebody in, or st.login() raises
LogIn ==
    /\ boot.op = "resolve_user_key_or_stop"
    /\ boot.shown = "login_button"
    /\ IF ~validate_oidc_secrets_or_show_error(env.auth_secrets)
       THEN /\ boot' = [op |-> "login", visitor |-> st_user] @@ Stopped("secrets_error")
            /\ UNCHANGED st_user
       ELSE \/ /\ boot' = [op |-> "login", visitor |-> st_user] @@ Stopped("login_failed")
               /\ UNCHANGED st_user
            \/ \E email \in Emails :
                  /\ st_user' = [is_logged_in |-> TRUE, email |-> email]
                  /\ boot' = [op |-> "login", visitor |-> st_user, returned |-> FALSE,
                              user_key |-> "", shown |-> "none"]
    /\ GateUnchanged

\* the visitor presses "Log out": st.logout()
LogOut ==
    /\ boot.op = "resolve_user_key_or_stop"
    /\ boot.shown = "logout_button"
    /\ st_user' = NoVisitor
    /\ boot' = [op |-> "logout", visitor |-> st_user, returned |-> FALSE, user_key |-> "",
                shown |-> "none"]
    /\ GateUnchanged

NextGate == ResolveUserKeyOrStop \/ LogIn \/ LogOut

SpecGate == InitGate /\ [][NextGate]_vars



(***************************************************************************)
(* core/persistence/factory.py, core/ui/persistence.py: the store of a     *)
(* script run.  Texts of messages are sequences of atoms; an atom is one   *)
(* character or a phrase far shorter than the limit of a reason.           *)
(***************************************************************************)
\* str(e)[:500]
REASON_LIMIT == 500

Truncated(message) ==
    IF Len(message) > REASON_LIMIT THEN SubSeq(message, 1, REASON_LIMIT) ELSE message

\* the database server: reachable; reachable over IPv4 only, while its name
\* resolves to an IPv6 address first; refusing connections; failing with a
\* message longer than the limit of a reason
Databases == {"up", "ipv6_unassignable", "refusing", "verbose_failure"}

Ipv6Message == << "connection to server failed: ", "Cannot assign requested address" >>

RefusedMessage == << "connection refused" >>

LongMessage == [i \in 1..(REASON_LIMIT + 1) |-> "x"]

\* the parameter that makes libpq connect to an IPv4 address
HostAddr == "hostaddr=1.2.3.4"

Connected == [raised |-> NoError, message |-> << >>]

ConnectError(message) == [raised |-> "OperationalError", message |-> message]

\* psycopg.connect(conninfo)
psycopg_connect(conninfo, database) ==
    CASE database = "up" -> Connected
      [] database = "ipv6_unassignable" ->
            IF \E i \in 1..Len(conninfo) : conninfo[i] = HostAddr THEN Connected
            ELSE ConnectError(Ipv6Message)
      [] database = "refusing" -> ConnectError(RefusedMessage)
      [] OTHER -> ConnectError(LongMessage)

\* PostgresHistoryStore._connect(): the connection strings tried, in their
\* order, and the connection or the exception of the last
PostgresHistoryStore_connect(dsn, database) ==
    [attempts |-> << dsn >>, outcome |-> psycopg_connect(dsn, database)]

\* the store objects: their class, the user key (Postgres) or the folder
\* key (local) they are scoped to, and the tag of the factory
StoreObject(class, user, unavailable, reason) ==
    [class |-> class, user |-> user, postgres_unavailable |-> unavailable, reason |-> reason]

\* PostgresHistoryStore(dsn=..., user_key=..., retention_days=...): the
\* checks of the arguments, then _ensure_schema()
PostgresHistoryStore_init(dsn, user_key, database) ==
    IF strip(dsn) = << >>
    THEN [raised |-> "ValueError", message |-> << "Postgres DSN is empty" >>, attempts |-> << >>]
    ELSE IF PostgresHistoryStore(user_key) = ""
    THEN [raised |-> "ValueError", message |-> << "user_key is empty" >>, attempts |-> << >>]
    ELSE LET conn == PostgresHistoryStore_connect(strip(dsn), database)
         IN  [raised |-> conn.outcome.raised, message |-> conn.outcome.message,
              attempts |-> conn.attempts]

fallback_store_untagged(user_key, reason) ==
    StoreObject("LocalHistoryStore", LocalHistoryStore(user_key), FALSE, << >>)

\* store = LocalHistoryStore(user_key=user_key) with the two attributes
\* _postgres_unavailable_reason and _postgres_unavailable set
fallback_store(user_key, reason) ==
    StoreObject("LocalHistoryStore", LocalHistoryStore(user_key), TRUE, reason)

\* create_history_store(user_key=..., postgres_dsn=..., retention_days=...)
create_history_store(backend_cfg, user_key, postgres_dsn, database) ==
    LET configured == Str(LowerAll(strip(backend_cfg)))
        dsn == strip(postgres_dsn)
        backend == IF configured \in {"", "auto"}
                   THEN (IF dsn # << >> THEN "postgres" ELSE "local")
                   ELSE configured
    IN  IF backend \in {"postgres", "supabase"}
        THEN IF dsn # << >>
             THEN LET made == PostgresHistoryStore_init(dsn, user_key, database)
                  IN  IF made.raised = NoError
                      THEN [store |-> StoreObject("PostgresHistoryStore",
                                                  PostgresHistoryStore(user_key), FALSE, << >>),
                            attempts |-> made.attempts, raised |-> NoError]
                      ELSE [store |-> fallback_store(user_key, Truncated(made.message)),
                            attempts |-> made.attempts, raised |-> NoError]
             ELSE [store |-> fallback_store(user_key, << "DSN is missing" >>),
                   attempts |-> << >>, raised |-> NoError]
        ELSE [store |-> StoreObject("LocalHistoryStore", LocalHistoryStore(user_key),
                                    FALSE, << >>),
              attempts |-> << >>, raised |-> NoError]

\* the sidebar of init_history_store: the warning of a local store where
\* Postgres may be expected, and the reason of a fallback
sidebar_of(store, backend_cfg) ==
    IF store.class = "LocalHistoryStore"
       /\ Str(backend_cfg) \in {"auto", "postgres", "supabase"}
    THEN {"warning"} \cup (IF store.postgres_unavailable THEN {"error"} ELSE {})
    ELSE {}

\* store.cleanup_retention() of the store of the run: the local store
\* swallows what its unlinks raise, the Postgres store connects again
cleanup_retention_of(store, files, rows, now, days, dsn, database, stuck) ==
    IF store.class = "LocalHistoryStore"
    THEN LET done == LocalHistoryStore_cleanup_retention(files, store.user, now, days, stuck)
         IN  [raised |-> NoError, files |-> done.after, rows |-> rows]
    ELSE IF days <= 0 THEN [raised |-> NoError, files |-> files, rows |-> rows]
    ELSE LET conn == PostgresHistoryStore_connect(strip(dsn), database)
         IN  IF conn.outcome.raised # NoError
             THEN [raised |-> conn.outcome.raised, files |-> files, rows |-> rows]
             ELSE [raised |-> NoError, files |-> files,
                   rows |-> PostgresHistoryStore_cleanup_retention(rows, now, days).after]

init_history_store_cleaning_always(state, cfg, user_key, files, rows, now, database, stuck) ==
    LET created == create_history_store(cfg.SESSION_STORE_BACKEND, user_key,
                                        cfg.postgres_dsn, cfg.database)
        cleaned == cleanup_retention_of(created.store, files, rows, now, cfg.RETENTION_DAYS,
                                        cfg.postgres_dsn, database, stuck)
    IN  [store |-> created.store, attempts |-> created.attempts, raised |-> NoError,
         sidebar |-> sidebar_of(created.store, cfg.SESSION_STORE_BACKEND),
         cleanup_called |-> TRUE, cleanup_raised |-> cleaned.raised,
         state |-> Put(state, "retention_cleanup_done", TRUE),
         files |-> cleaned.files, rows |-> cleaned.rows]

\* init_history_store(st, user_key=...), with the database as it is when the
\* store is made (cfg.database) and when the clean-up runs (database)
init_history_store(state, cfg, user_key, files, rows, now, database, stuck) ==
    LET created == create_history_store(cfg.SESSION_STORE_BACKEND, user_key,
                                        cfg.postgres_dsn, cfg.database)
        first == "retention_cleanup_done" \notin DOMAIN state
        cleaned == IF first
                   THEN cleanup_retention_of(created.store, files, rows, now,
                                             cfg.RETENTION_DAYS, cfg.postgres_dsn, database,
                                             stuck)
                   ELSE [raised |-> NoError, files |-> files, rows |-> rows]
    IN  [store |-> created.store, attempts |-> created.attempts, raised |-> NoError,
         sidebar |-> sidebar_of(created.store, cfg.SESSION_STORE_BACKEND),
         cleanup_called |-> first, cleanup_raised |-> cleaned.raised,
         state |-> IF first THEN Put(state, "retention_cleanup_done", TRUE) ELSE state,
         files |-> cleaned.files, rows |-> cleaned.rows]

\* the number of script runs of a behaviour
MaxStartRuns == 3

\* the user keys that the gate returns
StartUserKeys == { << "anonymous" >>, << "a", "@", "x" >>, << "b", "@", "x" >> }

\* SESSION_STORE_BACKEND, as core.config read it
Backends == { << "auto" >>, << >>, << "postgres" >>, << "supabase" >>, << "local" >>,
              << "sqlite" >> }

\* the connection string of _get_postgres_dsn(st): none, blanks, one with
\* blanks around it
Dsns == { << >>, << " " >>, << " ", "postgresql://db.example.com/postgres", " " >> }

\* the login part of a deployment, when the gate is open to everybody
StartDeployments ==
    { Deployment(FALSE, {}, {}, "absent", TRUE, backend, days, dsn, database) :
        backend \in Backends, days \in RetentionDays, dsn \in Dsns, database \in Databases }

\* no run yet in a new interactive session
FirstBoot == [op |-> "none", runs |-> 0, session_calls |-> 0, session_cleanups |-> 0]

InitStart ==
    /\ env \in StartDeployments
    /\ st_user = NoVisitor
    /\ boot = FirstBoot
    /\ disk = CHOOSE files \in InitialDisks : files # << >>
    /\ pg_rows = CHOOSE rows \in InitialRows : rows # << >>
    /\ clock = FirstCall
    /\ store_call = NoStoreCall
    /\ HistoryIdle
    /\ CodecIdle
    /\ ExtractIdle
    /\ MergeIdle
    /\ FlowIdle
    /\ QuotaIdle
    /\ UIIdle

StartUnchanged ==
    UNCHANGED << mergeVars, flowVars, quotaVars, storage, script_run, codecVars, extracted,
                 historyVars, store_call, st_user >>

\* a script run reaches init_history_store(st, user_key=user_key)
InitHistoryStore ==
    /\ boot.runs < MaxStartRuns
    /\ \E user_key \in StartUserKeys, database \in Databases,
          stuck \in { {}, Stuck(disk, {"storage/sessions"}) } :
          \E done \in { init_history_store(session_state, env, user_key, disk, pg_rows,
                                           clock, database, stuck) } :
              /\ boot' = [op |-> "init_history_store", runs |-> boot.runs + 1,
                          user_key |-> user_key, database |-> env.database,
                          store |-> done.store,
                          attempts |-> done.attempts, raised |-> done.raised,
                          sidebar |-> done.sidebar,
                          cleanup_called |-> done.cleanup_called,
                          cleanup_raised |-> done.cleanup_raised,
                          session_calls |-> boot.session_calls + 1,
                          session_cleanups |-> boot.session_cleanups
                                               + (IF done.cleanup_called THEN 1 ELSE 0)]
              /\ session_state' = done.state
              /\ disk' = done.files
              /\ pg_rows' = done.rows
              /\ env' = [env EXCEPT !.database = database]
    /\ clock' = clock + 1
    /\ StartUnchanged

\* the visitor opens the app in a new browser session: an empty
\* st.session_state
NewSession ==
    /\ boot.op = "init_history_store"
    /\ session_state' = << >>
    /\ boot' = [boot EXCEPT !.op = "new_session", !.session_calls = 0,
                            !.session_cleanups = 0]
    /\ UNCHANGED << env, disk, pg_rows, clock >>
    /\ StartUnchanged

\* the database server goes down, comes back or changes its addresses
DatabaseChanges ==
    /\ \E database \in Databases \ { env.database } :
          env' = [env EXCEPT !.database = database]
    /\ UNCHANGED << boot, session_state, disk, pg_rows, clock >>
    /\ StartUnchanged

NextStart == InitHistoryStore \/ NewSession \/ DatabaseChanges

SpecStart == InitStart /\ [][NextStart]_vars


(***************************************************************************)
(* Claims about merge_partial_change.                                      *)
(***************************************************************************)
AnchorIds == {"start", "node_end"}

NodesWithId(nodes, id) == SelectSeq(nodes, LAMBDA n : n.id = id)

EdgesWithKey(edges, k) == SelectSeq(edges, LAMBDA e : e.source = k[1] /\ e.target = k[2])

EdgeKey(e) == << e.source, e.target >>

\* C1: when merge_partial_change returns, the nodes with id `start` and
\* `node_end` of the result are exactly those of the original (same label,
\* type, status and subgraph), and an anchor id absent from the original is
\* absent from the result.
C1_AnchorsProtected ==
    merged.raised = NoError =>
        \A id \in AnchorIds :
            NodesWithId(merged.value.nodes, id) = NodesWithId(original_flowchart.nodes, id)

\* C1 witness: a merge returned although the changed flow rewrote the selected
\* anchor `start` and introduced `node_end`, which the original did not have.
C1_Witness ==
    /\ merged.raised = NoError
    /\ InList("start", selected_node_ids)
    /\ NodesWithId(original_flowchart.nodes, "start") # << >>
    /\ NodesWithId(changed_partial.nodes, "start") # << >>
    /\ NodesWithId(original_flowchart.nodes, "node_end") = << >>
    /\ NodesWithId(changed_partial.nodes, "node_end") # << >>

\* an edge with one endpoint an anchor and the other endpoint not selected
AnchorToUnselected(e, selected) ==
    \/ e.source \in AnchorIds /\ ~InList(e.target, selected)
    \/ e.target \in AnchorIds /\ ~InList(e.source, selected)

\* an edge between an anchor and a selected node that is not of the kind above
AnchorToSelected(e, selected) ==
    /\ ~AnchorToUnselected(e, selected)
    /\ \/ e.source \in AnchorIds /\ InList(e.target, selected)
       \/ e.target \in AnchorIds /\ InList(e.source, selected)

LastWithKey(edges, k) == EdgesWithKey(edges, k)[Len(EdgesWithKey(edges, k))]

\* C2: an edge of the changed flow with one endpoint an anchor and the other
\* endpoint not in selected_node_ids is never applied (the edges of the result
\* with its key are those of the original); an edge between an anchor and a
\* selected node replaces the first original edge with its key, or is
\* appended after the original edges when the original has no such key.
C2_AnchorEdges ==
    merged.raised = NoError =>
        \A i \in 1..Len(changed_partial.edges) :
            LET ce == changed_partial.edges[i]
                k == EdgeKey(ce)
                before == EdgesWithKey(original_flowchart.edges, k)
                after == EdgesWithKey(merged.value.edges, k)
                pos == FirstIndex(original_flowchart.edges, LAMBDA e : EdgeKey(e) = k)
            IN  /\ AnchorToUnselected(ce, selected_node_ids) => after = before
                /\ AnchorToSelected(ce, selected_node_ids) =>
                       IF pos # 0
                       THEN /\ merged.value.edges[pos] = LastWithKey(changed_partial.edges, k)
                            /\ Tail(after) = Tail(before)
                       ELSE /\ after = << LastWithKey(changed_partial.edges, k) >>
                            /\ \E j \in (Len(original_flowchart.edges) + 1)..Len(merged.value.edges) :
                                   merged.value.edges[j] = LastWithKey(changed_partial.edges, k)

\* C2 witness: a merge returned in which one changed edge tried to relabel a
\* protected original edge and another, between an anchor and a selected
\* node, was applied.
C2_Witness ==
    /\ merged.raised = NoError
    /\ \E i \in 1..Len(changed_partial.edges) :
          /\ AnchorToUnselected(changed_partial.edges[i], selected_node_ids)
          /\ EdgesWithKey(original_flowchart.edges, EdgeKey(changed_partial.edges[i])) # << >>
    /\ \E i \in 1..Len(changed_partial.edges) :
          AnchorToSelected(changed_partial.edges[i], selected_node_ids)

(***************************************************************************)
(* Claims about the Flowchart constructor and self-repair.                 *)
(***************************************************************************)
ClaimedTypes == {"start", "end", "process", "decision", "io_data", "storage", "missing"}

WellFormedNodes(v) ==
    /\ Len(v) >= 1
    /\ \E i \in 1..Len(v) : v[i].type = "start"
    /\ \E i \in 1..Len(v) : v[i].type = "end"
    /\ \A i, j \in 1..Len(v) : i # j => v[i].id # v[j].id
    /\ \A i \in 1..Len(v) : v[i].type \in ClaimedTypes

\* C3: a Flowchart is constructed exactly when its node list is non-empty,
\* has a start-typed and an end-typed node, pairwise distinct ids and only
\* allowed types; otherwise construction raises FlowchartValidationError;
\* the edges, dangling or not, never decide.
C3_ConstructionValidates ==
    flowchart # Pending =>
        /\ flowchart.raised = NoError <=> WellFormedNodes(v_nodes)
        /\ flowchart.raised = NoError =>
               flowchart.value.nodes = v_nodes /\ flowchart.value.edges = v_edges
        /\ flowchart.raised # NoError => flowchart.raised \in FlowchartValidationErrors

\* C3 witness: a flowchart with an edge to an undefined node was constructed.
C3_Witness ==
    /\ flowchart.raised = NoError
    /\ validate_edges_reference_nodes(flowchart.value.nodes, flowchart.value.edges) # {}

\* C3 witness of the failing side: construction raised on repeated ids.
C3_WitnessRaised ==
    flowchart.raised = "FlowchartValidationError:duplicate_ids"

IsolatedNodes(f) ==
    SelectSeq(f.nodes, LAMBDA n : /\ n.type \notin {"start", "end"}
                                  /\ \A i \in 1..Len(f.edges) :
                                        f.edges[i].source # n.id /\ f.edges[i].target # n.id)

\* C4 as claimed: after R = apply_logic_gap_detection(F), detect_logic_gaps(R)
\* is empty and apply_logic_gap_detection(R) equals R.
C4_Idempotent ==
    repaired_again # Pending =>
        /\ detect_logic_gaps(repaired.value) = << >>
        /\ repaired_again = repaired

\* C4 amended: apply_logic_gap_detection(R) returns a flowchart equal to R,
\* and detect_logic_gaps(R) reports nothing new: only the isolated nodes of R
\* that are neither start- nor end-typed, each already of type and status
\* `missing`, so it is empty exactly when R has no such node.
C4_IdempotentResult ==
    repaired_again # Pending =>
        /\ repaired_again = repaired
        /\ detect_logic_gaps(repaired.value) = IsolatedNodes(repaired.value)
        /\ \A i \in 1..Len(detect_logic_gaps(repaired.value)) :
              LET g == detect_logic_gaps(repaired.value)[i]
              IN  g.type = "missing" /\ g.status = "missing"

\* C4 witness: a repair that changed the flow (a decision node with one exit
\* and an undefined edge target) was applied a second time.
C4_Witness ==
    /\ repaired_again # Pending
    /\ repaired.value # flowchart.value
    /\ \E i \in 1..Len(flowchart.value.nodes) :
          /\ flowchart.value.nodes[i].type = "decision"
          /\ repaired.value.nodes[i].type = "missing"
    /\ Len(repaired.value.nodes) > Len(flowchart.value.nodes)
    /\ detect_logic_gaps(repaired.value) # << >>

Resolves(f) ==
    \A i \in 1..Len(f.edges) :
        f.edges[i].source \in NodeIds(f.nodes) /\ f.edges[i].target \in NodeIds(f.nodes)

IsMissingNode(f, id) ==
    \E i \in 1..Len(f.nodes) :
        f.nodes[i].id = id /\ f.nodes[i].type = "missing" /\ f.nodes[i].status = "missing"

\* C5 as claimed: every edge of the repaired flowchart resolves, and an edge
\* whose original endpoint X was undefined points at node missing_X, which
\* has type and status `missing`.
C5_EdgesResolve ==
    repaired.raised = NoError =>
        /\ Resolves(repaired.value)
        /\ Len(repaired.value.edges) = Len(flowchart.value.edges)
        /\ \A i \in 1..Len(flowchart.value.edges) :
              LET e == flowchart.value.edges[i]
                  r == repaired.value.edges[i]
                  ids == NodeIds(flowchart.value.nodes)
              IN  /\ e.source \notin ids =>
                        r.source = missing_id(e.source) /\ IsMissingNode(repaired.value, r.source)
                  /\ e.target \notin ids =>
                        r.target = missing_id(e.target) /\ IsMissingNode(repaired.value, r.target)

\* the placeholder ids synthesized for the undefined endpoints of f
PlaceholderIds(f) ==
    { missing_id(x) : x \in ({ f.edges[i].source : i \in 1..Len(f.edges) }
                              \cup { f.edges[i].target : i \in 1..Len(f.edges) })
                             \ NodeIds(f.nodes) }

\* C5 amended: every edge of the repaired flowchart resolves; an edge whose
\* original endpoint X was undefined points at node missing_X, or still at X
\* when X is itself the id of the placeholder synthesized for another
\* undefined endpoint; the node it points at has type and status `missing`;
\* an endpoint that was defined is left as it was.
C5_EdgesResolveToPlaceholders ==
    repaired.raised = NoError =>
        /\ Resolves(repaired.value)
        /\ Len(repaired.value.edges) = Len(flowchart.value.edges)
        /\ \A i \in 1..Len(flowchart.value.edges) :
              LET e == flowchart.value.edges[i]
                  r == repaired.value.edges[i]
                  ids == NodeIds(flowchart.value.nodes)
                  ph == PlaceholderIds(flowchart.value)
              IN  /\ r.label = e.label
                  /\ IF e.source \in ids THEN r.source = e.source
                     ELSE /\ r.source = (IF e.source \in ph THEN e.source ELSE missing_id(e.source))
                          /\ IsMissingNode(repaired.value, r.source)
                  /\ IF e.target \in ids THEN r.target = e.target
                     ELSE /\ r.target = (IF e.target \in ph THEN e.target ELSE missing_id(e.target))
                          /\ IsMissingNode(repaired.value, r.target)

\* C5 witness: a repair rewired an undefined target x to missing_x while
\* another edge named the undefined id missing_x itself.
C5_Witness ==
    /\ repaired.raised = NoError
    /\ "missing_x" \notin NodeIds(flowchart.value.nodes)
    /\ \E i, j \in 1..Len(flowchart.value.edges) :
          /\ flowchart.value.edges[i].target = "x"
          /\ repaired.value.edges[i].target = "missing_x"
          /\ flowchart.value.edges[j].target = "missing_x"

(***************************************************************************)
(* Claims about consume_llm_request.                                       *)
(***************************************************************************)
CallsOn(store) == { c \in Callers : calls[c].store = store }

Finished(store) == { c \in CallsOn(store) : calls[c].pc = "done" }

Succeeded(store) == { c \in Finished(store) : calls[c].outcome.raised = NoError }

\* the call of c is the k-th call on its store
Position(c) == Cardinality({ b \in CallsOn(calls[c].store) : b <= c })

Stored(store) == IF store = "local" THEN rate_file ELSE llm_daily_usage

StoredCount(store) == Get(Stored(store), today, 0)

Min(a, b) == IF a <= b THEN a ELSE b

C6_WitnessZero ==
    /\ daily_limit <= 0
    /\ \A s \in Stores : Finished(s) # {}

\* C7: whatever the interleaving of the calls on the Postgres store, with a
\* limit L of at least 1: at most L calls return, the calls that return
\* return pairwise distinct counts in 1..L, every other finished call raised
\* RateLimitExceededError, and the stored count never exceeds L.
C7_PostgresRaceFree ==
    daily_limit >= 1 =>
        /\ Cardinality(Succeeded("postgres")) <= daily_limit
        /\ \A c \in Succeeded("postgres") : calls[c].outcome.value \in 1..daily_limit
        /\ \A c1, c2 \in Succeeded("postgres") :
              c1 # c2 => calls[c1].outcome.value # calls[c2].outcome.value
        /\ \A c \in Finished("postgres") \ Succeeded("postgres") :
              calls[c].outcome = Raised(RateLimitExceededError)
        /\ StoredCount("postgres") <= daily_limit

\* calls on the Postgres store have overlapped, L of them returned and
\* another one was refused
C7_Witness ==
    /\ daily_limit >= 1
    /\ overlapped["postgres"]
    /\ InFlight("postgres") = {}
    /\ Cardinality(Succeeded("postgres")) = daily_limit
    /\ Finished("postgres") # Succeeded("postgres")

\* the local calls that passed the limit test on a stored count of L-1
ReadLastSlot == { c \in CallsOn("local") : calls[c].count = daily_limit }

\* C8: on the local store, with a limit L of at least 1, every call that
\* read a stored count of L-1 returns L, however many calls did so and
\* whatever was written in between, and the stored count never exceeds L.
C8_LocalNotAtomic ==
    daily_limit >= 1 =>
        /\ \A c \in ReadLastSlot \cap Finished("local") :
              calls[c].outcome = Returned(daily_limit)
        /\ StoredCount("local") <= daily_limit

\* two overlapping local calls both read L-1 and both returned L: more calls
\* returned than the limit allows, and the stored count is L
C8_Witness ==
    /\ daily_limit >= 1
    /\ overlapped["local"]
    /\ InFlight("local") = {}
    /\ \E c1, c2 \in ReadLastSlot :
          /\ c1 # c2
          /\ calls[c1].outcome = Returned(daily_limit)
          /\ calls[c2].outcome = Returned(daily_limit)
    /\ Cardinality(Succeeded("local")) > daily_limit
    /\ StoredCount("local") = daily_limit

(***************************************************************************)
(* Claims about the flows of app.py and the quota guard.                   *)
(***************************************************************************)
LLMCalls == {"generate_flow", "generate_partial_change"}

RunCalls == script_run.calls

\* C9: in every run of the script, each call of generate_flow or
\* generate_partial_change comes after a consume_llm_request of the same run
\* that returned, and after a consume_llm_request that raised the run makes
\* no LLM call and stops.
C9_QuotaBeforeLLMCall ==
    /\ \A i \in 1..Len(RunCalls) :
          RunCalls[i].call \in LLMCalls =>
              \E j \in 1..(i - 1) :
                  RunCalls[j].call = "consume_llm_request" /\ RunCalls[j].raised = NoError
    /\ \A j \in 1..Len(RunCalls) :
          (RunCalls[j].call = "consume_llm_request" /\ RunCalls[j].raised # NoError) =>
              /\ \A i \in (j + 1)..Len(RunCalls) : RunCalls[i].call \notin LLMCalls
              /\ \E i \in (j + 1)..Len(RunCalls) : RunCalls[i].call = "st.stop"

\* the guard by itself: a consumption that raised is followed by st.stop and
\* by no LLM call
GuardHaltsOnRefusal ==
    \A j \in 1..Len(RunCalls) :
        (RunCalls[j].call = "consume_llm_request" /\ RunCalls[j].raised # NoError) =>
            /\ \A i \in (j + 1)..Len(RunCalls) : RunCalls[i].call \notin LLMCalls
            /\ \E i \in (j + 1)..Len(RunCalls) : RunCalls[i].call = "st.stop"

\* the last run was a partial range edit whose extraction, LLM call, parse,
\* merge and append_toon_log all returned
PartialEditSucceeded ==
    /\ script_run.handler = "partial_edit"
    /\ \A name \in {"extract_node_range", "generate_partial_change", "TOONParser.parse",
                     "merge_partial_change", "append_toon_log"} :
          \E i \in 1..Len(RunCalls) : RunCalls[i].call = name /\ RunCalls[i].raised = NoError

\* C10: after a partial range edit whose extraction, LLM call, parse, merge
\* and append_toon_log all succeeded, st.session_state.history is the history
\* loaded from the persisted session and st.session_state.selected_node_ids
\* is empty.
C10_PartialEditReloadsHistory ==
    PartialEditSucceeded =>
        /\ \E session_name \in SESSION_ID_PATTERN :
              session_state.history = load_session(storage.sessions, session_name).value
        /\ session_state.selected_node_ids = << >>

(***************************************************************************)
(* Claims about extract_node_range.                                        *)
(***************************************************************************)
\* the ids of S other than the anchors that exist in F
SelectedInFlow(f, s) == (Range(s) \ AnchorIds) \cap NodeIds(f.nodes)

\* the ids the extraction includes: those, and the anchors present in F
IncludedIds(f, s) == SelectedInFlow(f, s) \cup (AnchorIds \cap NodeIds(f.nodes))

\* the extraction returned the nodes of F with an included id in F's order,
\* the edges of F between included ids, and no subgraph mapping
ExtractedAsClaimed ==
    /\ extracted.raised = NoError
    /\ extracted.value.nodes =
          SelectSeq(original_flowchart.nodes,
                    LAMBDA n : n.id \in IncludedIds(original_flowchart, selected_node_ids))
    /\ extracted.value.edges =
          SelectSeq(original_flowchart.edges,
                    LAMBDA e : /\ e.source \in IncludedIds(original_flowchart, selected_node_ids)
                               /\ e.target \in IncludedIds(original_flowchart, selected_node_ids))
    /\ extracted.value.subgraphs = NoSubgraphs

\* C16: for a valid flowchart F and an id list S, extract_node_range returns
\* the nodes of F, in F's order, whose id is in S minus the anchors or is an
\* anchor id present in F, with exactly the edges of F whose source and
\* target are both included and with no subgraph mapping; it raises
\* ValueError when no id of S other than the anchors exists in F.
C16_RangeExtraction ==
    extracted # Pending =>
        IF SelectedInFlow(original_flowchart, selected_node_ids) = {}
        THEN extracted.raised = "ValueError"
        ELSE ExtractedAsClaimed

\* what holds: the same when the included nodes have a start-typed and an
\* end-typed node among them; FlowchartValidationError otherwise
ExtractionWhenValid ==
    extracted # Pending =>
        IF SelectedInFlow(original_flowchart, selected_node_ids) = {}
        THEN extracted.raised = "ValueError"
        ELSE IF validate_flow_structure(
                    SelectSeq(original_flowchart.nodes,
                              LAMBDA n : n.id \in IncludedIds(original_flowchart, selected_node_ids)))
                = NoError
        THEN ExtractedAsClaimed
        ELSE extracted.raised \in FlowchartValidationErrors

(***************************************************************************)
(* Claims about the clarification rounds of app.py.                        *)
(***************************************************************************)
\* the pending-clarification bundle of a session state
Bundle(ss) == [conversation_context |-> ss.conversation_context,
               pending_questions |-> ss.pending_questions,
               question_responses |-> ss.question_responses,
               append_mode_for_question |-> ss.append_mode_for_question,
               question_count |-> ss.question_count]

\* some call of the run raised
RunFailed(run) == \E i \in 1..Len(run.calls) : run.calls[i].raised # NoError

\* the step is a run of the answer button whose follow-up failed
AnswerFailed == script_run'.handler = "answer" /\ RunFailed(script_run')

\* the bundle at the snapshot of the answer flow: the answer has just been
\* appended to the collected answers, nothing else has been touched
AtSnapshot(ss, after) ==
    \E user_answer \in {"a"} :
        Bundle(after) = Bundle([ss EXCEPT !.question_responses = Append(@, user_answer)])

\* C11: when the follow-up of an answer fails with any error, the bundle
\* after the interaction (original prompt, outstanding question, collected
\* answers, append-mode flag, round counter) equals its value at the snapshot
\* taken before the call, and the history stack is unchanged.
C11_FailedAnswerRestoresBundle ==
    [][AnswerFailed =>
          /\ AtSnapshot(session_state, session_state')
          /\ session_state'.history = session_state.history]_vars

\* what does hold of a failed follow-up: prompt, question, answers and flag
\* are the snapshot's and the history is unchanged; the round counter is the
\* one before the call or 0
FailedAnswerKeepsThread ==
    [][AnswerFailed =>
          /\ \E count \in {session_state.question_count, 0} :
                AtSnapshot([session_state EXCEPT !.question_count = count], session_state')
          /\ session_state'.history = session_state.history]_vars

\* the exception class of the first call of the run that raised (NoError if none)
RunRaised(run) == FirstRaised(run.calls)

\* the step is a run of the generate button that failed with one of the
\* three errors the flow handles by name
GenerateFailed ==
    /\ script_run'.handler = "generate"
    /\ RunRaised(script_run') \in {"LLMAPIError", "TOONParseError", "FlowchartValidationError"}

QuestionRound ==
    /\ script_run'.handler \in {"generate", "answer"}
    /\ script_run'.calls # << >>
    /\ script_run'.calls[1] = Call("generate_flow", Ok)
    /\ \A i \in 1..Len(script_run'.calls) : script_run'.calls[i].call # "TOONParser.parse"

\* C13: each LLM response classified as a question increments question_count
\* by exactly one; when the incremented value is >= 5 the bundle is cleared
\* (context and pending question None, answers empty) and question_count is
\* reset to 0, otherwise the question and the context are stashed.  Hence
\* question_count is in 0..4 in every state between interactions, and a
\* stashed question round is at most the fourth in a row.
C13_RoundCap ==
    /\ [](session_state = << >> \/ session_state.question_count \in 0..(MAX_QUESTION_COUNT - 1))
    /\ [][QuestionRound =>
             IF session_state.question_count + 1 >= MAX_QUESTION_COUNT
             THEN /\ session_state'.conversation_context = {}
                  /\ session_state'.pending_questions = {}
                  /\ session_state'.question_responses = << >>
                  /\ session_state'.question_count = 0
             ELSE /\ session_state'.question_count = session_state.question_count + 1
                  /\ session_state'.conversation_context # {}
                  /\ session_state'.pending_questions # {}
                  /\ session_state'.question_responses = << >>]_vars

\* the fifth question in a row has just been refused by the generate button:
\* no rerun, the bundle cleared, the counter back to 0
C13_Witness ==
    /\ script_run.handler = "generate"
    /\ script_run.calls = << Call("generate_flow", Ok) >>
    /\ session_state.pending_questions = {}
    /\ session_state.question_count = 0

\* a fourth question in a row is stashed
C13_WitnessFourth ==
    /\ session_state.pending_questions # {}
    /\ session_state.question_count = MAX_QUESTION_COUNT - 1

(***************************************************************************)
(* Claims about the TOON codec.                                            *)
(***************************************************************************)
\* a trimmed single-line string with no "[" and no backticks
CleanString(s) ==
    LET text == Atoms(s)
    IN  /\ strip(text) = text
        /\ \A i \in 1..Len(text) : text[i] \notin {"\n", "[", Fence}

\* the ids of a flowchart: of its nodes, of the ends of its edges, of the
\* subgraphs its nodes name and of the subgraphs of its mapping
IdsOf(f) ==
    { f.nodes[i].id : i \in 1..Len(f.nodes) }
    \cup { f.edges[i].source : i \in 1..Len(f.edges) }
    \cup { f.edges[i].target : i \in 1..Len(f.edges) }
    \cup ({ f.nodes[i].subgraph_id : i \in 1..Len(f.nodes) } \ {None})
    \cup DOMAIN SubgraphDict(f.subgraphs)

\* the ids that the `end` alias applies to
AliasedIdsOf(f) ==
    { f.nodes[i].id : i \in 1..Len(f.nodes) }
    \cup { f.edges[i].source : i \in 1..Len(f.edges) }
    \cup { f.edges[i].target : i \in 1..Len(f.edges) }

\* the labels of a flowchart: of its nodes, of its edges, of its subgraphs
LabelsOf(f) ==
    { f.nodes[i].label : i \in 1..Len(f.nodes) }
    \cup ({ f.edges[i].label : i \in 1..Len(f.edges) } \ {None})
    \cup { SubgraphDict(f.subgraphs)[k] : k \in DOMAIN SubgraphDict(f.subgraphs) }

\* the flowcharts C17 speaks of
CleanFlowchart(f) ==
    /\ \A s \in IdsOf(f) \cup LabelsOf(f) : CleanString(s)
    /\ "end" \notin AliasedIdsOf(f)

\* the text was written from toon_flowchart and has been parsed
WrittenAndParsed ==
    /\ toon_flowchart # NoFlow
    /\ toon_text # << >>
    /\ toon_parsed # Pending

\* the parsed flow is the flowchart that was written, and writing it again
\* gives the same text
ReadBackEqual ==
    /\ toon_parsed.raised = NoError
    /\ toon_parsed.value.nodes = toon_flowchart.nodes
    /\ toon_parsed.value.edges = toon_flowchart.edges
    /\ SubgraphDict(toon_parsed.value.subgraphs) = SubgraphDict(toon_flowchart.subgraphs)
    /\ to_toon_format(toon_parsed.value) = toon_text

\* C17: for every valid Flowchart F whose ids and labels are trimmed
\* single-line strings with no "[", no backticks and no id equal to `end`,
\* TOONParser.parse(F.to_toon_format()) has the nodes (id, label, type,
\* status, subgraph id) of F in their order, the edges (source, target,
\* label) of F and the subgraph mapping of F, and to_toon_format of the
\* parsed flow is the original text.
C17_RoundTrip ==
    (WrittenAndParsed /\ CleanFlowchart(toon_flowchart)) => ReadBackEqual

\* no empty string where a field is optional: the edge labels and the
\* subgraph ids of the nodes
NoEmptyOptional(f) ==
    /\ \A i \in 1..Len(f.nodes) : f.nodes[i].subgraph_id # ""
    /\ \A i \in 1..Len(f.edges) : f.edges[i].label # ""

\* C17 as it holds: the same, for flowcharts that moreover have no id equal
\* to `end` in any letter case and no empty edge label or subgraph id
C17_RoundTripAmended ==
    ( /\ WrittenAndParsed
      /\ CleanFlowchart(toon_flowchart)
      /\ \A s \in AliasedIdsOf(toon_flowchart) : Str(LowerAll(Atoms(s))) # "end"
      /\ NoEmptyOptional(toon_flowchart) ) => ReadBackEqual

\* such a flowchart with a status, a subgraph id, an edge label and a
\* subgraph mapping has been written and parsed
C17_Witness ==
    /\ WrittenAndParsed
    /\ CleanFlowchart(toon_flowchart)
    /\ \A s \in AliasedIdsOf(toon_flowchart) : Str(LowerAll(Atoms(s))) # "end"
    /\ NoEmptyOptional(toon_flowchart)
    /\ \E i \in 1..Len(toon_flowchart.nodes) :
          /\ toon_flowchart.nodes[i].status # "active"
          /\ Truthy(toon_flowchart.nodes[i].subgraph_id)
    /\ \E i \in 1..Len(toon_flowchart.edges) : Truthy(toon_flowchart.edges[i].label)
    /\ SubgraphDict(toon_flowchart.subgraphs) # << >>

\* `end` in any letter case
EndSpellings == { Str(text) : text \in { t \in KnownTexts : Str(LowerAll(t)) = "end" } }

\* what the claim says an id written in a text is read as
Aliased(id) == IF Str(strip(id)) \in EndSpellings THEN "node_end" ELSE Str(strip(id))

\* C18: in every flowchart returned by TOONParser.parse no node id and no
\* edge source or target equals `end` in any letter case; each such id of the
\* input is replaced by `node_end`, so an edge written to `end` and a node
\* written with id `end` refer to the same node after parsing.
C18_EndAlias ==
    toon_parsed.raised = NoError =>
        /\ AliasedIdsOf(toon_parsed.value) \cap EndSpellings = {}
        /\ \A id \in RawIds, source \in RawIds, target \in RawIds, fenced \in BOOLEAN :
              toon_text = RawText(id, source, target, fenced) =>
                  /\ toon_parsed.value.nodes[2].id = Aliased(id)
                  /\ toon_parsed.value.edges[1].source = Aliased(source)
                  /\ toon_parsed.value.edges[1].target = Aliased(target)
        /\ toon_flowchart # NoFlow =>
              \A i \in 1..Len(toon_parsed.value.nodes) :
                  \/ i > Len(toon_flowchart.nodes)
                  \/ toon_flowchart.nodes[i].id \notin EndSpellings
                  \/ toon_parsed.value.nodes[i].id = "node_end"

\* a text with the node `End` and an edge to `END` has been parsed: the edge
\* ends at the node
C18_Witness ==
    /\ toon_text = RawText(<< "End" >>, << "a" >>, << "END" >>, TRUE)
    /\ toon_parsed.raised = NoError
    /\ toon_parsed.value.nodes[2].id = toon_parsed.value.edges[1].target

(***************************************************************************)
(* Claims about append_toon_log.                                           *)
(***************************************************************************)
\* append_toon_log found a snapshot and merged the new flow into it
AppendMerged == append_call.merged_flow # NoFlow

EdgeKeys(edges) == { EdgeKey(edges[i]) : i \in 1..Len(edges) }

\* a list is the existing one, each element replaced by a new one with its
\* key when there is one, followed by the new ones whose key is not in the
\* existing list, in their order
MergedByKey(result, existing, new, Key(_)) ==
    LET existing_keys == { Key(existing[i]) : i \in 1..Len(existing) }
        fresh == { j \in 1..Len(new) : Key(new[j]) \notin existing_keys }
    IN  /\ Len(result) = Len(existing) + Cardinality(fresh)
        /\ \A i \in 1..Len(existing) :
              IF \E j \in 1..Len(new) : Key(new[j]) = Key(existing[i])
              THEN \E j \in 1..Len(new) : Key(new[j]) = Key(existing[i]) /\ result[i] = new[j]
              ELSE result[i] = existing[i]
        /\ \A j \in fresh :
              result[Len(existing) + Cardinality({ k \in fresh : k <= j })] = new[j]

NodeKey(n) == n.id

\* the union of two subgraph mappings, the new entries winning
UnionNewWins(result, existing, new) ==
    /\ DOMAIN result = (DOMAIN existing) \cup (DOMAIN new)
    /\ \A k \in DOMAIN result : result[k] = IF k \in DOMAIN new THEN new[k] ELSE existing[k]

\* C14: when append_toon_log finds a snapshot E, the merged node list is
\* E's nodes in E's order, each replaced by the node of the new flow N with
\* the same id when N has one, followed by N's nodes whose ids are not in E
\* in N's order; the edges are merged in the same way by (source, target);
\* the subgraph mappings are united, N's entries winning; so every node id
\* and every edge key of E or N is in the merged flow before self-repair.
C14_AppendMerge ==
    AppendMerged =>
        /\ MergedByKey(append_call.merged_flow.nodes, append_call.existing_flow.value.nodes,
                       append_call.new_flowchart.nodes, NodeKey)
        /\ MergedByKey(append_call.merged_flow.edges, append_call.existing_flow.value.edges,
                       append_call.new_flowchart.edges, EdgeKey)
        /\ UnionNewWins(SubgraphDict(append_call.merged_flow.subgraphs),
                        SubgraphDict(append_call.existing_flow.value.subgraphs),
                        SubgraphDict(append_call.new_flowchart.subgraphs))
        /\ NodeIds(append_call.existing_flow.value.nodes) \cup NodeIds(append_call.new_flowchart.nodes)
              = NodeIds(append_call.merged_flow.nodes)
        /\ EdgeKeys(append_call.existing_flow.value.edges) \cup EdgeKeys(append_call.new_flowchart.edges)
              = EdgeKeys(append_call.merged_flow.edges)

\* a merge in which the new flow relabels a node and an edge of the snapshot,
\* brings a node, an edge and a subgraph of its own and changes a subgraph
\* label, while a node, an edge and a subgraph of the snapshot stay
C14_Witness ==
    /\ AppendMerged
    /\ \E i \in 1..Len(append_call.existing_flow.value.nodes) :
          /\ append_call.merged_flow.nodes[i].id = append_call.existing_flow.value.nodes[i].id
          /\ append_call.merged_flow.nodes[i].label # append_call.existing_flow.value.nodes[i].label
    /\ \E i \in 1..Len(append_call.existing_flow.value.nodes) :
          append_call.merged_flow.nodes[i] = append_call.existing_flow.value.nodes[i]
    /\ Len(append_call.merged_flow.nodes) > Len(append_call.existing_flow.value.nodes)
    /\ \E i \in 1..Len(append_call.existing_flow.value.edges) :
          /\ EdgeKey(append_call.merged_flow.edges[i]) = EdgeKey(append_call.existing_flow.value.edges[i])
          /\ append_call.merged_flow.edges[i].label # append_call.existing_flow.value.edges[i].label
    /\ \E i \in 1..Len(append_call.existing_flow.value.edges) :
          append_call.merged_flow.edges[i] = append_call.existing_flow.value.edges[i]
    /\ Len(append_call.merged_flow.edges) > Len(append_call.existing_flow.value.edges)
    /\ \E k \in DOMAIN SubgraphDict(append_call.existing_flow.value.subgraphs) :
          /\ k \in DOMAIN SubgraphDict(append_call.new_flowchart.subgraphs)
          /\ SubgraphDict(append_call.merged_flow.subgraphs)[k]
                # SubgraphDict(append_call.existing_flow.value.subgraphs)[k]
    /\ DOMAIN SubgraphDict(append_call.existing_flow.value.subgraphs)
          \ DOMAIN SubgraphDict(append_call.new_flowchart.subgraphs) # {}
    /\ DOMAIN SubgraphDict(append_call.new_flowchart.subgraphs)
          \ DOMAIN SubgraphDict(append_call.existing_flow.value.subgraphs) # {}


\* append_toon_log returned and load_toon_file was called after it
AppendedAndLoaded ==
    /\ append_call.result.raised = NoError
    /\ toon_loaded # Pending

\* load_toon_file returned the flowchart that append_toon_log returned
LoadedWhatWasReturned ==
    /\ toon_loaded.raised = NoError
    /\ toon_loaded.value.nodes = append_call.result.value.nodes
    /\ toon_loaded.value.edges = append_call.result.value.edges
    /\ SubgraphDict(toon_loaded.value.subgraphs) = SubgraphDict(append_call.result.value.subgraphs)

\* without a snapshot the new flowchart is returned as it is
NewReturnedUnchanged ==
    (append_call.result.raised = NoError /\ append_call.existing_flow = Returned(NoFlow))
        => append_call.result.value = append_call.new_flowchart

\* C15: after append_toon_log(id, N) returns M, load_toon_file(id) returns a
\* flowchart with the nodes, edges and subgraphs of M; when there was no
\* TOON snapshot for id before the call, M is N itself, unchanged.
C15_AppendThenLoad ==
    /\ AppendedAndLoaded => LoadedWhatWasReturned
    /\ NewReturnedUnchanged

\* the flowcharts that the TOON text gives back as they are
SurvivesToon(f) ==
    /\ CleanFlowchart(f)
    /\ \A s \in AliasedIdsOf(f) : Str(LowerAll(Atoms(s))) # "end"
    /\ NoEmptyOptional(f)

\* C15 as it holds: the same, when the ids and labels of M are trimmed
\* single-line strings with no "[" and no backticks, no node id or edge end
\* of M is `end` in any letter case, and no edge label or subgraph id of a
\* node of M is the empty string.
C15_AppendThenLoadAmended ==
    /\ (AppendedAndLoaded /\ SurvivesToon(append_call.result.value)) => LoadedWhatWasReturned
    /\ NewReturnedUnchanged

\* a merged flow with a subgraph mapping was repaired with a placeholder
\* node, returned and loaded
C15_Witness ==
    /\ AppendedAndLoaded
    /\ SurvivesToon(append_call.result.value)
    /\ AppendMerged
    /\ append_call.result.value.nodes # append_call.merged_flow.nodes
    /\ SubgraphDict(append_call.result.value.subgraphs) # << >>

(***************************************************************************)
(* Claims about the sessions of the stores.                                *)
(***************************************************************************)
\* the calls of the store so far
StoreCalls == session_calls.calls

\* the completed saves of a session before the call at position j
SavesBefore(j) ==
    { i \in 1..(j - 1) :
        /\ StoreCalls[i].op = "save_session"
        /\ StoreCalls[i].session_id = StoreCalls[j].session_id
        /\ StoreCalls[i].raised = NoError }

Latest(positions) == CHOOSE i \in positions : \A k \in positions : k <= i

\* a load_session of a valid session id at position j
IsLoad(j) == StoreCalls[j].op = "load_session" /\ StoreCalls[j].found # "invalid"

\* C19: for the local and for the Postgres store, after save_session(id, H)
\* completes load_session(id) returns a list equal to H (length, order, and
\* the nodes, statuses, edges and subgraphs of each flowchart), a later
\* save_session of the id replaces the earlier one, and load_session of an
\* id that was never saved, or whose file is blank, returns the empty list.
C19_SessionRoundTrip ==
    \A j \in 1..Len(StoreCalls) :
        IsLoad(j) =>
            IF SavesBefore(j) # {}
            THEN /\ StoreCalls[j].raised = NoError
                 /\ StoreCalls[j].returned = StoreCalls[Latest(SavesBefore(j))].history
            ELSE StoreCalls[j].found \in {"absent", "blank"} =>
                     /\ StoreCalls[j].raised = NoError
                     /\ StoreCalls[j].returned = << >>

\* two different histories of two flowcharts were saved one after the other
\* in the local store, and the load returned the second
C19_Witness ==
    /\ session_calls.store = "local"
    /\ Len(StoreCalls) = 3
    /\ StoreCalls[1].op = "save_session" /\ StoreCalls[1].raised = NoError
    /\ StoreCalls[2].op = "save_session" /\ StoreCalls[2].raised = NoError
    /\ Len(StoreCalls[1].history) = 2 /\ Len(StoreCalls[2].history) = 2
    /\ StoreCalls[1].history # StoreCalls[2].history
    /\ StoreCalls[2].history[1] # StoreCalls[2].history[2]
    /\ IsLoad(3)
    /\ StoreCalls[3].returned = StoreCalls[2].history

\* the same in the Postgres store, over a row
PostgresRoundTripReached ==
    /\ session_calls.store = "postgres"
    /\ Len(StoreCalls) = 3
    /\ StoreCalls[1].op = "save_session" /\ StoreCalls[1].found = "json"
    /\ StoreCalls[2].op = "save_session" /\ StoreCalls[2].raised = NoError
    /\ Len(StoreCalls[2].history) = 2
    /\ StoreCalls[1].history # StoreCalls[2].history
    /\ IsLoad(3)
    /\ StoreCalls[3].returned = StoreCalls[2].history

\* a load that found the file of the session unreadable as JSON
FoundCorrupt(j) == IsLoad(j) /\ StoreCalls[j].found \in {"malformed", "undecodable"}

\* C20: when load_session(id) finds a session file whose content is not
\* parsable JSON, it raises an error; afterwards the file is gone under its
\* name and is there under the name with `.broken` appended, id is not in
\* list_sessions, and the next load_session(id) returns the empty list.
C20_CorruptQuarantine ==
    \A j \in 1..Len(StoreCalls) :
        FoundCorrupt(j) =>
            /\ StoreCalls[j].raised # NoError
            /\ j = Len(StoreCalls) =>
                  /\ SessionFile(StoreCalls[j].session_id) \notin DOMAIN storage_dir.files
                  /\ BrokenFile(StoreCalls[j].session_id) \in DOMAIN storage_dir.files
            /\ j < Len(StoreCalls) =>
                  /\ StoreCalls[j + 1].op = "list_sessions"
                        => StoreCalls[j].session_id \notin StoreCalls[j + 1].listed
                  /\ (IsLoad(j + 1) /\ StoreCalls[j + 1].session_id = StoreCalls[j].session_id)
                        => /\ StoreCalls[j + 1].raised = NoError
                           /\ StoreCalls[j + 1].returned = << >>

\* the same for the files that json.loads rejects: text, not bytes that are
\* not UTF-8
QuarantineOfMalformedText ==
    \A j \in 1..Len(StoreCalls) :
        (FoundCorrupt(j) /\ StoreCalls[j].found = "malformed") =>
            /\ StoreCalls[j].raised # NoError
            /\ j = Len(StoreCalls) =>
                  /\ SessionFile(StoreCalls[j].session_id) \notin DOMAIN storage_dir.files
                  /\ BrokenFile(StoreCalls[j].session_id) \in DOMAIN storage_dir.files
                  /\ storage_dir.files[BrokenFile(StoreCalls[j].session_id)] = MalformedText
            /\ j < Len(StoreCalls) =>
                  /\ StoreCalls[j + 1].op = "list_sessions"
                        => StoreCalls[j].session_id \notin StoreCalls[j + 1].listed
                  /\ (IsLoad(j + 1) /\ StoreCalls[j + 1].session_id = StoreCalls[j].session_id)
                        => /\ StoreCalls[j + 1].raised = NoError
                           /\ StoreCalls[j + 1].returned = << >>


(***************************************************************************)
(* Claims about the stores of several users.                               *)
(***************************************************************************)
\* the last call was this operation of a store
Called(op) == store_call.op = op

\* what the stores hold now
StoredNow == IF store_call.store = "local" THEN disk ELSE pg_rows

\* store.load_session(session_id) of a user over what the stores hold: the
\* exception and the flowcharts
LoadedSession(stored, user_key, session_id) ==
    LET call == IF store_call.store = "local"
                THEN local_load_session(storage_dir_of(stored, LocalHistoryStore(user_key)),
                                        session_id).call
                ELSE postgres_load_session(
                         user_sessions_of(stored, PostgresHistoryStore(user_key)),
                         session_id).call
    IN  << call.raised, call.returned >>

\* store.load_toon_file(session_id) of a user
LoadedToonFile(stored, user_key, session_id) ==
    IF store_call.store = "local"
    THEN load_toon_file(toon_dir_of(stored, LocalHistoryStore(user_key)), session_id)
    ELSE PostgresHistoryStore_load_toon_file(stored, PostgresHistoryStore(user_key), session_id)

\* store.list_sessions() and store.list_toon_files() of a user
ListedSessions(stored, user_key) ==
    IF store_call.store = "local"
    THEN list_sessions(storage_dir_of(stored, LocalHistoryStore(user_key)))
    ELSE DOMAIN user_sessions_of(stored, PostgresHistoryStore(user_key))

ListedToonFiles(stored, user_key) ==
    IF store_call.store = "local"
    THEN DOMAIN toon_dir_of(stored, LocalHistoryStore(user_key)).files
    ELSE PostgresHistoryStore_list_toon_files(stored, PostgresHistoryStore(user_key))

\* what a user sees of one session
SeenOfSession(stored, user_key, session_id) ==
    << LoadedSession(stored, user_key, session_id),
       LoadedToonFile(stored, user_key, session_id),
       session_id \in ListedSessions(stored, user_key),
       session_id \in ListedToonFiles(stored, user_key) >>

\* nothing is stored for the session of the user: load_session is empty,
\* load_toon_file is absent and the id is in neither listing
SessionGone(stored, user_key, session_id) ==
    SeenOfSession(stored, user_key, session_id)
        = << << NoError, << >> >>, Returned(NoFlow), FALSE, FALSE >>

\* a session history or a TOON snapshot is stored for the session
SessionExisted(stored, user_key, session_id) ==
    \/ session_id \in ListedSessions(stored, user_key)
    \/ session_id \in ListedToonFiles(stored, user_key)

\* the other sessions of the user are as they were before the call
OtherSessionsUnchanged ==
    \A other \in SESSION_ID_PATTERN \ { store_call.session_id } :
        SeenOfSession(StoredNow, store_call.user_key, other)
            = SeenOfSession(store_call.before, store_call.user_key, other)

\* a call with an invalid session id raised ValueError and changed nothing
InvalidIdRefused ==
    store_call.session_id \notin SESSION_ID_PATTERN =>
        store_call.raised = "ValueError" /\ StoredNow = store_call.before

\* C21: delete_session(id) returns true iff a session history or a TOON
\* snapshot existed for id; after it returns load_session(id) is empty,
\* load_toon_file(id) is absent and id is in neither listing, while every
\* other session of the user is unchanged; an id that does not match the
\* session-id pattern raises ValueError and deletes nothing.
C21_DeleteSession ==
    Called("delete_session") =>
        /\ InvalidIdRefused
        /\ store_call.session_id \in SESSION_ID_PATTERN =>
              /\ store_call.raised = NoError
              /\ store_call.returned
                    <=> SessionExisted(store_call.before, store_call.user_key,
                                       store_call.session_id)
              /\ SessionGone(StoredNow, store_call.user_key, store_call.session_id)
              /\ OtherSessionsUnchanged

\* the files of the session whose unlink raised are as they were
FailedUnlinksKept ==
    \A p \in store_call.failed : p \in DOMAIN disk /\ disk[p] = store_call.before[p]

\* C21 as the code has it: delete_session(id) returns true iff a file or
\* the row of id was deleted; what could be deleted is gone, a file whose
\* unlink raised stays as it was, the other sessions of the user are
\* unchanged, and an invalid id raises ValueError and deletes nothing.
C21_DeleteSessionAmended ==
    Called("delete_session") =>
        /\ InvalidIdRefused
        /\ store_call.session_id \in SESSION_ID_PATTERN =>
              /\ store_call.raised = NoError
              /\ store_call.failed = {} =>
                    /\ store_call.returned
                          <=> SessionExisted(store_call.before, store_call.user_key,
                                             store_call.session_id)
                    /\ SessionGone(StoredNow, store_call.user_key, store_call.session_id)
              /\ store_call.failed # {} =>
                    /\ store_call.returned
                          <=> \E p \in DOMAIN store_call.before :
                                 p \notin DOMAIN disk
                    /\ FailedUnlinksKept
                    /\ \A p \in (DOMAIN store_call.before) \ DOMAIN disk :
                          /\ p.stem = store_call.session_id
                          /\ p.user_dir = LocalHistoryStore(store_call.user_key)
              /\ OtherSessionsUnchanged

\* a session with a history and a TOON snapshot was deleted, next to
\* another session of the same user
C21_Witness ==
    /\ Called("delete_session")
    /\ store_call.raised = NoError
    /\ store_call.failed = {}
    /\ store_call.session_id \in ListedSessions(store_call.before, store_call.user_key)
    /\ store_call.session_id \in ListedToonFiles(store_call.before, store_call.user_key)
    /\ ListedSessions(StoredNow, store_call.user_key) # {}
    /\ store_call.returned


\* what a user sees through a local store: each session, the listings and
\* the quota count of today
Observed(stored, user_key) ==
    << [id \in SESSION_ID_PATTERN |-> SeenOfSession(stored, user_key, id)],
       ListedSessions(stored, user_key),
       ListedToonFiles(stored, user_key),
       rate_count(stored, LocalHistoryStore(user_key)) >>

\* the user keys are the same after trimming and case-folding
SameUser(u, v) == LowerAll(strip(u)) = LowerAll(strip(v))

\* C26: in the local store, no operation performed through the store of one
\* user changes the result of a list or load operation or the quota count
\* seen through the store of a user whose key differs after trimming and
\* case-folding; user keys that differ only in case or surrounding
\* whitespace share the same data.
C26_TenantIsolation ==
    store_call.store = "local" =>
        /\ ~Called("none") =>
              \A v \in UserKeys :
                  ~SameUser(v, store_call.user_key) =>
                      Observed(disk, v) = Observed(store_call.before, v)
        /\ \A u, v \in UserKeys : SameUser(u, v) => Observed(disk, u) = Observed(disk, v)

\* a call through the store of the key as it was entered changed what the
\* case-folded key sees, next to the data of another user
C26_Witness ==
    /\ store_call.store = "local"
    /\ ~Called("none")
    /\ store_call.user_key = << "A", "@", "x", " " >>
    /\ Observed(disk, << "a", "@", "x" >>) # Observed(store_call.before, << "a", "@", "x" >>)
    /\ ListedSessions(disk, << "b", "@", "x" >>) # {}
    /\ rate_count(disk, UserDirA) > 0


\* the paths whose file was written, replaced or deleted by the last call
ChangedPaths ==
    { p \in (DOMAIN disk) \cup (DOMAIN store_call.before) :
        \/ p \notin DOMAIN disk
        \/ p \notin DOMAIN store_call.before
        \/ disk[p] # store_call.before[p] }

\* the root of the files that an operation of HistoryManager works on
RootOf(op) == IF op = "save_session" THEN "storage/sessions" ELSE "storage/toon_files"

\* C27: every HistoryManager operation that takes a session id rejects an
\* id that is empty or does not match the session-id pattern with an error
\* and leaves all stored sessions and TOON files unchanged; for an accepted
\* id the only paths written lie inside the manager's session root or TOON
\* root.
C27_SessionIdGate ==
    store_call.store = "local" =>
        /\ \A user_key \in UserKeys, session_id \in StoreSessionIds \ SESSION_ID_PATTERN :
              /\ LoadedSession(disk, user_key, session_id)[1] = "ValueError"
              /\ LoadedToonFile(disk, user_key, session_id).raised = "ValueError"
        /\ store_call.op \in {"save_session", "save_toon_file", "append_toon_log"} =>
              /\ InvalidIdRefused
              /\ \A p \in ChangedPaths :
                    /\ p.root = RootOf(store_call.op)
                    /\ p.user_dir = LocalHistoryStore(store_call.user_key)

\* a save with an invalid session id was refused over the files of two
\* users
C27_Witness ==
    /\ store_call.store = "local"
    /\ Called("save_toon_file")
    /\ store_call.session_id = "../x"
    /\ store_call.raised = "ValueError"
    /\ DOMAIN disk # {}


\* the last call was a save that got past the checks of the session id
SaveCompleted ==
    /\ store_call.store = "local"
    /\ store_call.op \in {"save_session", "save_toon_file"}
    /\ store_call.session_id \in SESSION_ID_PATTERN
    /\ store_call.limit >= 1

\* the file that the save wrote
SavedPath ==
    IF Called("save_session")
    THEN json_path(LocalHistoryStore(store_call.user_key), store_call.session_id)
    ELSE toon_path(LocalHistoryStore(store_call.user_key), store_call.session_id)

\* the session files that are not .broken, or the TOON files, of the root
\* that the save wrote to
CountedFiles(files) ==
    { p \in Folder(files, SavedPath.root, SavedPath.user_dir) : p.suffix = SavedPath.suffix }

\* the files that the save removed
RemovedFiles == (DOMAIN store_call.before) \ DOMAIN disk

\* the session just saved is present and loads as it was saved
SavedLoadable ==
    /\ SavedPath \in DOMAIN disk
    /\ disk[SavedPath].mtime = store_call.now
    /\ IF Called("save_session")
       THEN LoadedSession(disk, store_call.user_key, store_call.session_id)
                = << NoError, store_call.given >>
       ELSE LoadedToonFile(disk, store_call.user_key, store_call.session_id)
                = Returned(store_call.given)

\* C30: when save_session(id, H) completes with a cap C >= 1, the number of
\* session files that are not .broken in the session root is at most C, the
\* files removed are exactly the oldest by modification time, and the
\* session just saved is still present and loadable; the same holds for
\* save_toon_file and the TOON root; a failure to delete an old file never
\* makes the save fail.
C30_EvictionAfterSave ==
    SaveCompleted =>
        /\ store_call.raised = NoError
        /\ Cardinality(CountedFiles(disk)) <= store_call.limit
        /\ \A p \in RemovedFiles :
              /\ p \in CountedFiles(store_call.before)
              /\ \A q \in CountedFiles(disk) : store_call.before[p].mtime < disk[q].mtime
        /\ SavedLoadable

\* C30 as the code has it: the save never fails because of the clean-up;
\* the files beyond the cap are the oldest by modification time, those of
\* them whose unlink succeeded are removed and the others stay as they were,
\* so that the number of files left is at most C plus the number of failed
\* unlinks; the session just saved is present and loadable.
C30_EvictionAfterSaveAmended ==
    SaveCompleted =>
        /\ store_call.raised = NoError
        /\ Cardinality(CountedFiles(disk) \ store_call.failed) <= store_call.limit
        /\ store_call.failed = {} => Cardinality(CountedFiles(disk)) <= store_call.limit
        /\ FailedUnlinksKept
        /\ \A p \in RemovedFiles \cup store_call.failed :
              /\ p \in CountedFiles(store_call.before)
              /\ \A q \in CountedFiles(disk) \ store_call.failed :
                    store_call.before[p].mtime < disk[q].mtime
        /\ SavedLoadable

\* a save with the cap of one file removed the older session of the user
C30_Witness ==
    /\ SaveCompleted
    /\ Called("save_session")
    /\ store_call.limit = 1
    /\ store_call.failed = {}
    /\ RemovedFiles # {}
    /\ CountedFiles(disk) = { SavedPath }

\* a save completed although the unlink of the older session raised
C30_SaveDespiteFailedUnlink ==
    /\ SaveCompleted
    /\ store_call.failed # {}
    /\ store_call.raised = NoError
    /\ Cardinality(CountedFiles(disk)) > store_call.limit


\* the last call was this upsert of a Postgres store, with a valid id
Upserted(op) ==
    /\ store_call.store = "postgres"
    /\ Called(op)
    /\ store_call.session_id \in SESSION_ID_PATTERN

\* the row that the upsert wrote
UpsertedRow == RowKey(PostgresHistoryStore(store_call.user_key), store_call.session_id)

\* the rows of the other sessions and of the other users are as they were
OtherRowsUnchanged ==
    /\ (DOMAIN pg_rows) \ { UpsertedRow } = (DOMAIN store_call.before) \ { UpsertedRow }
    /\ \A k \in (DOMAIN pg_rows) \ { UpsertedRow } : pg_rows[k] = store_call.before[k]

\* C29: in the Postgres store save_session(id, H) leaves the stored TOON
\* snapshot of id unchanged and save_toon_file(id, F) leaves the stored
\* history of id unchanged, in any order and any number of repetitions;
\* neither changes a row of another session id or of another user key, and
\* list_toon_files lists exactly the sessions whose TOON snapshot is not
\* null.
C29_ColumnScopedUpserts ==
    /\ Upserted("save_session") =>
          /\ store_call.raised = NoError
          /\ LoadedSession(pg_rows, store_call.user_key, store_call.session_id)
                = << NoError, store_call.given >>
          /\ LoadedToonFile(pg_rows, store_call.user_key, store_call.session_id)
                = LoadedToonFile(store_call.before, store_call.user_key, store_call.session_id)
          /\ pg_rows[UpsertedRow].toon_flow
                = IF UpsertedRow \in DOMAIN store_call.before
                  THEN store_call.before[UpsertedRow].toon_flow ELSE SqlNull
          /\ OtherRowsUnchanged
    /\ Upserted("save_toon_file") =>
          /\ store_call.raised = NoError
          /\ LoadedToonFile(pg_rows, store_call.user_key, store_call.session_id)
                = Returned(store_call.given)
          /\ LoadedSession(pg_rows, store_call.user_key, store_call.session_id)
                = LoadedSession(store_call.before, store_call.user_key, store_call.session_id)
          /\ pg_rows[UpsertedRow].history_json
                = IF UpsertedRow \in DOMAIN store_call.before
                  THEN store_call.before[UpsertedRow].history_json ELSE << >>
          /\ OtherRowsUnchanged
    /\ store_call.store = "postgres" =>
          \A user_key \in UserKeys :
              ListedToonFiles(pg_rows, user_key)
                  = { id \in SESSION_ID_PATTERN :
                        LoadedToonFile(pg_rows, user_key, id) # Returned(NoFlow) }

\* a snapshot replaced another one in a row with a history, after the first
\* call had upserted another row of the same user that holds a snapshot, next
\* to a row of another user
C29_Witness ==
    /\ Upserted("save_toon_file")
    /\ UpsertedRow \in DOMAIN store_call.before
    /\ store_call.before[UpsertedRow].history_json # << >>
    /\ store_call.before[UpsertedRow].toon_flow # model_dump(store_call.given)
    /\ \E k \in DOMAIN pg_rows :
          /\ k.user_key = UpsertedRow.user_key
          /\ k # UpsertedRow
          /\ pg_rows[k].updated_at = FirstCall
          /\ pg_rows[k].toon_flow # SqlNull
    /\ \E k \in DOMAIN pg_rows : k.user_key # UpsertedRow.user_key



\* append_toon_log has run on the local store and on the Postgres store
BothAppended == store_call.op = "append_toon_log" /\ store_call.store = "both"

\* load_toon_file of the session on each store, now
ReloadedLocal == load_toon_file(toon_dir_of(disk, UserDirA), "default_session")

ReloadedPostgres == PostgresHistoryStore_load_toon_file(pg_rows, "a@x", "default_session")

\* C28 as stated: for every stored snapshot E and new flowchart N the two
\* stores return the same flowchart (or raise the same error), and on both
\* stores load_toon_file then gives the returned flowchart
C28_SameMerge ==
    BothAppended =>
        /\ store_call.local = store_call.postgres
        /\ store_call.local.raised = NoError =>
              /\ ReloadedLocal = store_call.local
              /\ ReloadedPostgres = store_call.postgres

\* C28 as it holds: the two stores return the same flowchart whenever they
\* loaded the same snapshot, which they do when the stored snapshot survives
\* the TOON text of the local store; the Postgres store always leaves its
\* result as the stored snapshot, and the local store does when the result
\* survives the TOON text
C28_SameMergeAmended ==
    BothAppended =>
        /\ store_call.existing_local = store_call.existing_postgres =>
              store_call.local = store_call.postgres
        /\ SurvivesToon(store_call.saved) =>
              store_call.existing_local = store_call.existing_postgres
        /\ store_call.postgres.raised = NoError => ReloadedPostgres = store_call.postgres
        /\ (store_call.local.raised = NoError /\ SurvivesToon(store_call.local.value)) =>
              ReloadedLocal = store_call.local

\* both stores merged a new flowchart into the same loaded snapshot, added
\* nodes and a placeholder, and hold the result
C28_Witness ==
    /\ BothAppended
    /\ store_call.existing_local = store_call.existing_postgres
    /\ store_call.local.raised = NoError
    /\ store_call.local = store_call.postgres
    /\ Len(store_call.local.value.nodes) > Len(store_call.saved.nodes)
    /\ \E i \in 1..Len(store_call.local.value.nodes) :
          store_call.local.value.nodes[i].type = "missing"
    /\ ReloadedLocal = store_call.local
    /\ ReloadedPostgres = store_call.postgres


(***************************************************************************)
(* Claims about the start of a script run.                                 *)
(***************************************************************************)
Resolved == boot.op = "resolve_user_key_or_stop"

\* the email of the visitor of the call, trimmed and lower-cased
VisitorEmail == LowerAll(strip(boot.visitor.email))

\* the email passes both configured allow-lists
PassesAllowLists ==
    /\ env.ALLOWED_EMAILS = {} \/ Str(VisitorEmail) \in env.ALLOWED_EMAILS
    /\ env.ALLOWED_EMAIL_DOMAINS = {} \/ email_domain(VisitorEmail) \in env.ALLOWED_EMAIL_DOMAINS

\* the secrets have an [auth] section, with or without keys
AuthSectionPresent == env.auth_secrets \in {"empty", "incomplete", "valid"}

\* the secrets have an [auth] section that holds something
AuthSectionFilled == env.auth_secrets \in {"incomplete", "valid"}

\* the visitor a required login lets in
LetIn ==
    /\ env.login_capable
    /\ boot.visitor.is_logged_in
    /\ VisitorEmail # << >>
    /\ PassesAllowLists

\* C25 as stated: resolve_user_key_or_stop returns "anonymous" iff neither
\* REQUIRE_AUTH is set nor an auth secrets section is present; when
\* authentication is required it returns only for a logged-in visitor with a
\* non-empty email that passes both allow-lists, and returns that email
\* trimmed and lower-cased; otherwise it halts
C25_AuthGate ==
    Resolved =>
        /\ (boot.returned /\ boot.user_key = "anonymous")
              <=> ~(env.REQUIRE_AUTH \/ AuthSectionPresent)
        /\ (env.REQUIRE_AUTH \/ AuthSectionPresent) =>
              /\ boot.returned => LetIn /\ boot.user_key = Str(VisitorEmail)
              /\ ~LetIn => ~boot.returned

\* C25 as it holds: authentication is required iff REQUIRE_AUTH is set or
\* the auth secrets section holds something (a section without keys counts
\* as none). The gate returns without a login iff authentication is not
\* required, and then returns "anonymous"; when it is required it returns
\* iff the section holds something, the login capability exists and the
\* visitor is logged in with a non-empty email that passes both allow-lists,
\* and returns that email trimmed and lower-cased (which is "anonymous" for a
\* visitor whose email claim is that word and no allow-list); in every other
\* case it halts
C25_AuthGateAmended ==
    Resolved =>
        LET required == env.REQUIRE_AUTH \/ AuthSectionFilled
        IN  /\ ~required => boot.returned /\ boot.user_key = "anonymous"
                            /\ boot.shown = "none"
            /\ required =>
                  /\ boot.returned <=> (AuthSectionFilled /\ LetIn)
                  /\ boot.returned => boot.user_key = Str(VisitorEmail)
                                      /\ boot.shown = "logout_button"
                  /\ boot.user_key = "anonymous" =>
                        Str(VisitorEmail) = "anonymous" /\ env.ALLOWED_EMAILS = {}
                        /\ env.ALLOWED_EMAIL_DOMAINS = {}

\* a required login let a visitor in whose email needed trimming and
\* lower-casing and is on both allow-lists
C25_Witness ==
    /\ Resolved
    /\ env.REQUIRE_AUTH
    /\ env.ALLOWED_EMAILS # {}
    /\ env.ALLOWED_EMAIL_DOMAINS # {}
    /\ boot.returned
    /\ boot.visitor.email = << "A", "@", "x", " " >>
    /\ boot.user_key = "a@x"

\* a login was required, the visitor was on the list of emails but of a
\* domain that is not listed, and the run halted
C25_HaltedByDomain ==
    /\ Resolved
    /\ ~boot.returned
    /\ boot.shown = "domain_not_allowed"
    /\ Str(VisitorEmail) \in env.ALLOWED_EMAILS


Started == boot.op = "init_history_store"

\* the backend of the deployment, trimmed and lower-cased, and as it
\* resolves under auto
ConfiguredBackend == Str(LowerAll(strip(env.SESSION_STORE_BACKEND)))

TrimmedDsn == strip(env.postgres_dsn)

ResolvedBackend ==
    IF ConfiguredBackend \in {"", "auto"}
    THEN (IF TrimmedDsn # << >> THEN "postgres" ELSE "local")
    ELSE ConfiguredBackend

PostgresWanted == ResolvedBackend \in {"postgres", "supabase"}

\* what connecting to the database gave when the store of the run was made
FirstConnection == psycopg_connect(TrimmedDsn, boot.database)

IsPrefix(short, long) == Len(short) <= Len(long) /\ short = SubSeq(long, 1, Len(short))

\* the run got a local store tagged with the failure of the construction
TaggedWithFailure ==
    /\ boot.store.class = "LocalHistoryStore"
    /\ boot.store.postgres_unavailable
    /\ IsPrefix(boot.store.reason, FirstConnection.message)
    /\ Len(boot.store.reason) = Len(FirstConnection.message)
       \/ Len(boot.store.reason) = REASON_LIMIT

\* C22: create_history_store never raises because a Postgres store could not
\* be constructed. It returns a Postgres store only when the resolved
\* backend is postgres/supabase, the DSN is non-empty and construction
\* succeeded; if construction throws it returns a local store tagged
\* _postgres_unavailable with the failure reason; with the backend
\* postgres/supabase and an empty DSN it returns a local store; under auto
\* the backend is postgres iff the DSN is non-empty
C22_FactoryFallback ==
    Started =>
        /\ boot.raised = NoError
        /\ boot.store.class \in {"PostgresHistoryStore", "LocalHistoryStore"}
        /\ boot.store.user = IF boot.store.class = "PostgresHistoryStore"
                             THEN Str(boot.user_key)
                             ELSE to_user_dir_key(boot.user_key)
        /\ boot.store.class = "PostgresHistoryStore" <=>
              (PostgresWanted /\ TrimmedDsn # << >> /\ FirstConnection.raised = NoError)
        /\ (PostgresWanted /\ TrimmedDsn # << >> /\ FirstConnection.raised # NoError) =>
              TaggedWithFailure
        /\ (PostgresWanted /\ TrimmedDsn = << >>) => boot.store.class = "LocalHistoryStore"
        /\ ConfiguredBackend \in {"", "auto"} =>
              /\ TrimmedDsn = << >> =>
                    boot.store.class = "LocalHistoryStore" /\ ~boot.store.postgres_unavailable
              /\ TrimmedDsn # << >> =>
                    boot.store.class = "PostgresHistoryStore" \/ TaggedWithFailure

\* under auto, with a connection string and a database whose failure
\* message is longer than the limit, the run got a local store tagged with
\* the first 500 characters of the message
C22_Witness ==
    /\ Started
    /\ ConfiguredBackend = "auto"
    /\ FirstConnection.raised # NoError
    /\ TaggedWithFailure
    /\ Len(boot.store.reason) = REASON_LIMIT
    /\ Len(FirstConnection.message) > REASON_LIMIT

\* the connection string has the IPv4 address of the host appended
WithHostAddr(conninfo, dsn) ==
    /\ IsPrefix(dsn, conninfo)
    /\ \E i \in 1..Len(conninfo) : conninfo[i] = HostAddr

\* C23 as stated: when the first connection attempt of _connect fails with
\* "Cannot assign requested address", exactly one more attempt is made with
\* hostaddr=<resolved IPv4> appended to the connection string, and its
\* connection is returned; any other failure is not retried
C23_ConnectRetry ==
    (Started /\ boot.attempts # << >>) =>
        IF FirstConnection.raised # NoError /\ FirstConnection.message = Ipv6Message
        THEN /\ Len(boot.attempts) = 2
             /\ WithHostAddr(boot.attempts[2], boot.attempts[1])
             /\ boot.store.class = "PostgresHistoryStore"
        ELSE Len(boot.attempts) = 1

\* what _connect does: one attempt with the connection string of the store,
\* whose connection or exception is the outcome
C23_SingleAttempt ==
    (Started /\ boot.attempts # << >>) =>
        /\ boot.attempts = << TrimmedDsn >>
        /\ boot.store.class = "PostgresHistoryStore" <=> FirstConnection.raised = NoError

\* C24: the first init_history_store call of an interactive session calls
\* cleanup_retention once and sets retention_cleanup_done; every later call
\* of the session does not call it again; when cleanup_retention raises, the
\* exception is swallowed, the flag is still set and the store is returned
C24_CleanupOncePerSession ==
    Started =>
        /\ boot.session_cleanups = 1
        /\ boot.cleanup_called <=> boot.session_calls = 1
        /\ "retention_cleanup_done" \in DOMAIN session_state
        /\ session_state["retention_cleanup_done"] = TRUE
        /\ boot.raised = NoError
        /\ boot.store.class \in {"PostgresHistoryStore", "LocalHistoryStore"}

\* the clean-up of the first call of a session raised, and the call
\* returned a Postgres store with the flag set
C24_Witness ==
    /\ Started
    /\ boot.session_calls = 1
    /\ boot.cleanup_called
    /\ boot.cleanup_raised # NoError
    /\ boot.raised = NoError
    /\ boot.store.class = "PostgresHistoryStore"
    /\ session_state["retention_cleanup_done"] = TRUE

\* a third call in a session, without a clean-up, while rows older than the
\* retention are there
C24_LaterCall ==
    /\ Started
    /\ boot.session_calls = 3
    /\ ~boot.cleanup_called
    /\ env.RETENTION_DAYS > 0
    /\ \E k \in DOMAIN pg_rows : pg_rows[k].updated_at < clock - 1 - env.RETENTION_DAYS


(***************************************************************************)
(* Further claims about self-repair, the merge and the extraction.         *)
(***************************************************************************)
\* the repaired flowchart keeps the nodes of f in their places, the start-
\* and end-typed ones as they are and the others as they are or marked
\* missing, and every node after them is of type missing
KeepsNodesOf(f, r) ==
    /\ Len(r.nodes) >= Len(f.nodes)
    /\ \A i \in 1..Len(f.nodes) :
          /\ r.nodes[i].id = f.nodes[i].id
          /\ r.nodes[i] \in { f.nodes[i], MarkMissing(f.nodes[i]) }
          /\ f.nodes[i].type \in {"start", "end"} =>
                r.nodes[i].type = f.nodes[i].type /\ r.nodes[i].status = f.nodes[i].status
    /\ \A i \in (Len(f.nodes) + 1)..Len(r.nodes) : r.nodes[i].type = "missing"

\* C35 as stated: for every valid Flowchart F, apply_logic_gap_detection(F)
\* returns without raising, keeps every node id of F in F's order, keeps
\* every start- or end-typed node with its type and status, and only adds
\* nodes of type missing or retypes existing nodes to missing
C35_RepairKeepsValidFlow ==
    repaired # Pending =>
        /\ repaired.raised = NoError
        /\ KeepsNodesOf(flowchart.value, repaired.value)

\* the start- and end-typed nodes of f whose id is the placeholder id of an
\* undefined edge endpoint of f
AnchorsNamedAsPlaceholders(f) ==
    { i \in 1..Len(f.nodes) : f.nodes[i].type \in {"start", "end"}
                               /\ f.nodes[i].id \in PlaceholderIds(f) }

\* what self-repair keeps: the same, for the flowcharts in which no start-
\* or end-typed node has the id missing_X of an undefined edge endpoint X
RepairKeepsFlowWithoutPlaceholderAnchors ==
    (repaired # Pending /\ AnchorsNamedAsPlaceholders(flowchart.value) = {}) =>
        /\ repaired.raised = NoError
        /\ KeepsNodesOf(flowchart.value, repaired.value)

\* a repair that marked a decision node and added a placeholder left the
\* start and the end as they were
RepairKeptAnchors ==
    /\ repaired.raised = NoError
    /\ AnchorsNamedAsPlaceholders(flowchart.value) = {}
    /\ Len(repaired.value.nodes) > Len(flowchart.value.nodes)
    /\ \E i \in 1..Len(flowchart.value.nodes) :
          flowchart.value.nodes[i].type = "decision" /\ repaired.value.nodes[i].type = "missing"

\* self-repair raised on a valid flowchart
RepairRaised ==
    /\ flowchart.raised = NoError
    /\ repaired # Pending
    /\ repaired.raised # NoError

\* C36: when merge_partial_change returns, the result has at each place of
\* an original node a node with the same id and at each place of an original
\* edge an edge with the same (source, target) key, so that no id and no key
\* of the original is lost or moved; and an original node that is neither an
\* anchor nor selected is at its place unchanged, whatever the changed
\* partial flow holds under its id.
C36_MergeNeverDeletes ==
    merged.raised = NoError =>
        /\ Len(merged.value.nodes) >= Len(original_flowchart.nodes)
        /\ Len(merged.value.edges) >= Len(original_flowchart.edges)
        /\ \A i \in 1..Len(original_flowchart.nodes) :
              /\ merged.value.nodes[i].id = original_flowchart.nodes[i].id
              /\ (original_flowchart.nodes[i].id \notin AnchorIds
                  /\ ~InList(original_flowchart.nodes[i].id, selected_node_ids))
                 => merged.value.nodes[i] = original_flowchart.nodes[i]
        /\ \A i \in 1..Len(original_flowchart.edges) :
              EdgeKey(merged.value.edges[i]) = EdgeKey(original_flowchart.edges[i])

\* C36 witness: a merge returned in which the changed partial flow rewrote a
\* node of the original that was not selected and replaced one that was.
C36_Witness ==
    /\ merged.raised = NoError
    /\ \E i \in 1..Len(original_flowchart.nodes) :
          /\ original_flowchart.nodes[i].id \notin AnchorIds
          /\ ~InList(original_flowchart.nodes[i].id, selected_node_ids)
          /\ NodesWithId(changed_partial.nodes, original_flowchart.nodes[i].id) # << >>
    /\ \E i \in 1..Len(original_flowchart.nodes) :
          merged.value.nodes[i] # original_flowchart.nodes[i]

\* a merge whose result the constructor refused
MergeRaised == merged # Pending /\ merged.raised # NoError

\* C33: for a valid flowchart F, whatever the ids of its start-typed and
\* end-typed nodes, and a selection S with at least one non-anchor id of F,
\* extract_node_range returns a Flowchart: it does not raise
\* FlowchartValidationError.
C33_ExtractionAlwaysValid ==
    (extracted # Pending /\ SelectedInFlow(original_flowchart, selected_node_ids) # {})
        => extracted.raised = NoError

\* the start-typed and the end-typed nodes of F that the extraction includes
IncludedOfType(f, s, type) ==
    SelectSeq(f.nodes, LAMBDA n : n.type = type /\ n.id \in IncludedIds(f, s))

\* what holds: the extraction of such a selection returns when a start-typed
\* and an end-typed node of F are named `start`, `node_end` or are selected
ExtractionValidWithIncludedAnchors ==
    (/\ extracted # Pending
     /\ SelectedInFlow(original_flowchart, selected_node_ids) # {}
     /\ IncludedOfType(original_flowchart, selected_node_ids, "start") # << >>
     /\ IncludedOfType(original_flowchart, selected_node_ids, "end") # << >>)
        => extracted.raised = NoError

\* an extraction that lost the only start-typed node of F
ExtractionLostStart ==
    /\ extracted # Pending
    /\ SelectedInFlow(original_flowchart, selected_node_ids) # {}
    /\ IncludedOfType(original_flowchart, selected_node_ids, "start") = << >>
    /\ extracted.raised \in FlowchartValidationErrors

\* C32: for a valid flowchart F and a selection S with at least one non-anchor
\* id of F, merging the unedited extract of S back into F with the selection
\* S returns a flowchart with the node list, the edge list (labels and order
\* included) and the subgraph mapping of F.
C32_ExtractThenMergeIsIdentity ==
    merged # Pending => merged = Returned(original_flowchart)

\* two edges of the list have the same (source, target) key and differ
ParallelEdgesDiffer(edges) ==
    \E i, j \in 1..Len(edges) : EdgeKey(edges[i]) = EdgeKey(edges[j]) /\ edges[i] # edges[j]

\* what holds: the merge of the unedited extract gives F back when no two
\* edges of the extract with the same key differ
ExtractThenMergeWithoutParallelEdges ==
    (merged # Pending /\ ~ParallelEdgesDiffer(changed_partial.edges))
        => merged = Returned(original_flowchart)

\* a merge of an unedited extract that changed the label of an edge of F
ExtractThenMergeRelabelled ==
    /\ merged # Pending
    /\ merged.raised = NoError
    /\ merged.value.nodes = original_flowchart.nodes
    /\ merged.value.edges # original_flowchart.edges

\* a merge of an unedited extract that gave F back
ExtractThenMergeGaveBack ==
    /\ merged = Returned(original_flowchart)
    /\ Len(changed_partial.edges) = MaxEdges

(***************************************************************************)
(* Claims about the page state of app.py.                                  *)
(***************************************************************************)
SelectionHandlers == {"select_text", "select_query", "select_list"}

DeselectionHandlers == {"clear_selection", "remove_last_selection", "partial_edit"}

NoDuplicate(s) == \A i, j \in 1..Len(s) : i # j => s[i] # s[j]

\* C38: after every run of the script the selected-node list has no
\* duplicate and holds neither `start` nor `node_end`; ids enter it only in
\* the runs of the text entry, the node-click query parameter and the
\* multi-select, all of them ids of the nodes of one flow of the history
\* (the displayed one); the multi-select removes none; ids leave it only in
\* the runs of the clear button, the remove-last button and a partial edit.
C38_SelectionNeverTargetsAnchor ==
    [][LET before == Range(session_state.selected_node_ids)
           after == Range(session_state'.selected_node_ids)
       IN  /\ NoDuplicate(session_state'.selected_node_ids)
           /\ after \cap {"start", "node_end"} = {}
           /\ after \ before # {} =>
                 /\ script_run'.handler \in SelectionHandlers
                 /\ \E history_index \in 1..Len(session_state.history) :
                       after \ before \subseteq
                           NodeIds(session_state.history[history_index].nodes)
           /\ before \ after # {} => script_run'.handler \in DeselectionHandlers
           /\ script_run'.handler = "select_list" => before \subseteq after]_vars

\* C38 witness: a node is selected, by the text entry, in a session whose
\* history holds a flow without that node
C38_Witness ==
    /\ script_run.handler = "select_text"
    /\ session_state.selected_node_ids = << "a" >>
    /\ \E i \in 1..Len(session_state.history) :
          "a" \notin NodeIds(session_state.history[i].nodes)

\* the selection was emptied by the clear button
SelectionCleared ==
    /\ script_run.handler = "clear_selection"
    /\ session_state.selected_node_ids = << >>

\* the step is a run of the generate or answer button that produced a flow:
\* the text was parsed and the run ended with st.rerun()
GenerationSucceeded ==
    /\ script_run'.handler \in {"generate", "answer"}
    /\ \E i \in 1..Len(script_run'.calls) :
          script_run'.calls[i] = Call("TOONParser.parse", Ok)
    /\ script_run'.calls[Len(script_run'.calls)] = Call("st.rerun", Ok)

\* C37: the history stack starts as the one-entry list of the two-node
\* start-to-end flow and is never empty; a successful generation appends one
\* entry; a session load leaves it or replaces it by the non-empty stored
\* history; a TOON load replaces it by a one-entry list; every other run
\* leaves it as it is.  Hence every history index 1..Len has a flow.
C37_HistoryNeverEmpty ==
    /\ session_state.history = << initial_flow >>
    /\ [][LET before == session_state.history
              after == session_state'.history
          IN  /\ Len(after) >= 1
              /\ CASE GenerationSucceeded ->
                        /\ Len(after) = Len(before) + 1
                        /\ SubSeq(after, 1, Len(before)) = before
                   [] script_run'.handler = "load" ->
                        \/ after = before
                        \/ /\ after # << >>
                           /\ \E s \in DOMAIN storage.sessions : after = storage.sessions[s]
                   [] script_run'.handler = "load_toon" ->
                        /\ Len(after) = 1
                        /\ \E f \in DOMAIN storage.toon_files :
                              after = << storage.toon_files[f] >>
                   [] OTHER -> after = before]_vars

\* C37 witness: a session load has replaced the history by a stored one of two
\* entries, the second one generated
C37_Witness ==
    /\ script_run.handler = "load"
    /\ Len(session_state.history) = MaxHistory
    /\ session_state.history[1] = initial_flow
    /\ session_state.history[MaxHistory] # initial_flow

\* a TOON load has replaced the history by the one-entry list of a generated flow
ToonLoadReplacedHistory ==
    /\ script_run.handler = "load_toon"
    /\ Len(session_state.history) = 1
    /\ session_state.history[1] # initial_flow

(***************************************************************************)
(* Claims about the diagram notation.                                      *)
(***************************************************************************)
StartsWith(line, prefix) ==
    Len(line) >= Len(prefix) /\ SubSeq(line, 1, Len(prefix)) = prefix

\* the lines of the text that declare a shape for the identifier
ShapeDeclarations(code, ident) ==
    SelectSeq(SplitLines(code),
              LAMBDA line : \/ StartsWith(strip(line), ident \o << "[" >>)
                            \/ StartsWith(strip(line), ident \o << "{" >>))

\* the lines `style <identifier> fill:<color>` of the text
StyleLines(code, ident) ==
    SelectSeq(SplitLines(code),
              LAMBDA line : \E color \in {"#90EE90", "#87CEEB", "#FF6B6B", "#D3D3D3"} :
                  strip(line) = << "style", " " >> \o ident \o << " ", "fill", ":", color >>)

\* the text has one shape declaration and one style line for the node
DrawnOnce(code, n) ==
    /\ Len(ShapeDeclarations(code, escaped_id(n.id))) = 1
    /\ Len(StyleLines(code, escaped_id(n.id))) = 1

Exported == mermaid_flowchart # NoFlow /\ mermaid_code # << >>

\* C31: the text to_mermaid writes for a valid flowchart, with or without a
\* subgraph mapping, has exactly one shape declaration and exactly one
\* style line for each node, so that the identifier of every edge endpoint
\* that is a node id is declared.
C31_ExportCoversEveryNode ==
    Exported =>
        \A i \in 1..Len(mermaid_flowchart.nodes) :
            DrawnOnce(mermaid_code, mermaid_flowchart.nodes[i])

\* the nodes whose subgraph_id is set and is not a key of the mapping
NodesOfUnknownSubgraph(fc) ==
    { i \in 1..Len(fc.nodes) :
        /\ Truthy(fc.nodes[i].subgraph_id)
        /\ fc.nodes[i].subgraph_id \notin DOMAIN SubgraphDict(fc.subgraphs) }

\* what holds: every node is drawn once when the flowchart has no mapping,
\* and otherwise exactly the nodes whose subgraph_id is unset or a key of
\* the mapping are; the others have neither a declaration nor a style line
ExportCoversNodesOfKnownSubgraphs ==
    Exported =>
        \A i \in 1..Len(mermaid_flowchart.nodes) :
            IF has_subgraphs(mermaid_flowchart)
               /\ i \in NodesOfUnknownSubgraph(mermaid_flowchart)
            THEN /\ ShapeDeclarations(mermaid_code,
                                      escaped_id(mermaid_flowchart.nodes[i].id)) = << >>
                 /\ StyleLines(mermaid_code,
                               escaped_id(mermaid_flowchart.nodes[i].id)) = << >>
            ELSE DrawnOnce(mermaid_code, mermaid_flowchart.nodes[i])

\* an export that left out a node to which an edge of the text points
ExportDroppedEdgeEndpoint ==
    /\ Exported
    /\ \E i \in 1..Len(mermaid_flowchart.nodes), j \in 1..Len(mermaid_flowchart.edges) :
          /\ mermaid_flowchart.edges[j].target = mermaid_flowchart.nodes[i].id
          /\ ShapeDeclarations(mermaid_code, escaped_id(mermaid_flowchart.nodes[i].id)) = << >>

\* an export with a mapping that drew every node, one of them in a subgraph
ExportDrewSubgraph ==
    /\ Exported
    /\ has_subgraphs(mermaid_flowchart)
    /\ \E i \in 1..Len(mermaid_flowchart.nodes) :
          Truthy(mermaid_flowchart.nodes[i].subgraph_id)
    /\ \A i \in 1..Len(mermaid_flowchart.nodes) :
          DrawnOnce(mermaid_code, mermaid_flowchart.nodes[i])

\* C34: whenever the loop of MermaidParser.parse has recognised at least two
\* nodes, parse returns a Flowchart with a start-typed and an end-typed
\* node; it raises TOONParseError exactly when no node was recognised, and
\* never FlowchartValidationError.
C34_ImportAnchorsTheFlow ==
    mermaid_parsed # Pending =>
        /\ Len(recognised(mermaid_code).nodes) >= 2 =>
              /\ mermaid_parsed.raised = NoError
              /\ \E i \in 1..Len(mermaid_parsed.value.nodes) :
                    mermaid_parsed.value.nodes[i].type = "start"
              /\ \E i \in 1..Len(mermaid_parsed.value.nodes) :
                    mermaid_parsed.value.nodes[i].type = "end"
        /\ mermaid_parsed.raised = "TOONParseError" <=> recognised(mermaid_code).nodes = << >>

\* the retyping to end falls on the only start-typed node: no other node is
\* start-typed, no node is end-typed, and the node with id node_end (or,
\* without one, the last node) is the first node or the start-typed one
RetypingTakesTheStart(nodes) ==
    LET types == { nodes[i].type : i \in 1..Len(nodes) }
        end_node == FirstIndex(nodes, LAMBDA n : n.id = "node_end")
        target == IF end_node # 0 THEN end_node ELSE Len(nodes)
        starts == IF "start" \in types
                  THEN { i \in 1..Len(nodes) : nodes[i].type = "start" } ELSE {1}
    IN  "end" \notin types /\ starts = {target}

\* what holds: parse raises TOONParseError exactly when no node was
\* recognised, FlowchartValidationError exactly when the retyping to end
\* takes the only start, and otherwise returns a flow with both types
ImportAnchorsUnlessRetypingTakesTheStart ==
    mermaid_parsed # Pending =>
        LET nodes == recognised(mermaid_code).nodes
        IN  IF nodes = << >> THEN mermaid_parsed.raised = "TOONParseError"
            ELSE IF RetypingTakesTheStart(nodes)
            THEN mermaid_parsed.raised \in FlowchartValidationErrors
            ELSE /\ mermaid_parsed.raised = NoError
                 /\ \E i \in 1..Len(mermaid_parsed.value.nodes) :
                       mermaid_parsed.value.nodes[i].type = "start"
                 /\ \E i \in 1..Len(mermaid_parsed.value.nodes) :
                       mermaid_parsed.value.nodes[i].type = "end"

\* an import of two or more recognised nodes that the constructor refused
ImportLostStart ==
    /\ mermaid_parsed # Pending
    /\ Len(recognised(mermaid_code).nodes) >= 2
    /\ mermaid_parsed.raised \in FlowchartValidationErrors

\* an import of two or more recognised nodes, none of them typed start or
\* end by its shape, that returned
ImportRetyped ==
    /\ mermaid_parsed # Pending
    /\ mermaid_parsed.raised = NoError
    /\ Len(recognised(mermaid_code).nodes) >= 2
    /\ \A i \in 1..Len(recognised(mermaid_code).nodes) :
          recognised(mermaid_code).nodes[i].type \notin {"start", "end"}

====
